---- MODULE Spec2Model ----
(***************************************************************************)
(* Model of the gameplay engine of osuwebengine (the GameCanvas component, *)
(* multi-mode revision): chart objects, advance cursor, score state, the   *)
(* three discrete press handlers (Standard, Taiko/"Drum", Mania/"Lane"),   *)
(* the per-frame draw tick and the input listeners.                        *)
(*                                                                         *)
(* Times are milliseconds.  The audio clock advances on a grid of          *)
(* ClockStep ms; chart times are chosen on and off that grid so that the   *)
(* window boundaries (50/100/150) and their interiors are both reached.    *)
(* Pixel positions are integers; the exponential pointer smoothing and the *)
(* pointer angle are computed in integers (rounded to the pixel, resp. to  *)
(* an eighth of a turn), all other arithmetic is exact.                    *)
(***************************************************************************)
EXTENDS Integers, Sequences, FiniteSets, TLC

(* ---------------- program constants ---------------- *)
HIT_WINDOW_300 == 50
HIT_WINDOW_100 == 100
HIT_WINDOW_50 == 150
AUDIO_OFFSET == 25
OSU_RES_X == 512
OSU_RES_Y == 384
TAIKO_HIT_X == 260
MANIA_HIT_Y_OFFSET == 100
LEAD_IN == 500
SEARCH_AHEAD == 10
LINGER == 200
\* the reading of Date.now() when the page is opened (the epoch is moved to
\* keep the number small)
WallEpoch == 1000000

\* GameMode enum
STANDARD == 0
TAIKO == 1
CATCH == 2
MANIA == 3

\* HitObjectType enum
CIRCLE == 1
SLIDER == 2
SPINNER == 8

(* ---------------- bounds of the model ---------------- *)
\* the audio clock is read every ClockStep ms during the first FineSpan ms
\* of the track, every CoarseStep ms before and after, up to MaxClock ms
ClockStep == 50
CoarseStep == 250
FineSpan == 450
MaxClock == 1950
\* presses stop once MaxJudged judgements have been emitted
MaxJudged == 4
\* pointer moves stop once the spinner accumulator has reached MaxRotation
MaxRotation == 36
\* number of keys / buttons the player holds at the same time
MaxHeld == 2
\* the wall clock advances in steps of WallStep ms, MaxWallTicks times
WallStep == 1000
MaxWallTicks == 1

\* the browser window (fixes the chart-to-screen transform)
innerWidth == 640
innerHeight == 480

(* ---------------- arithmetic helpers ---------------- *)
Abs(n) == IF n < 0 THEN -n ELSE n
Min(a, b) == IF a <= b THEN a ELSE b
Max(a, b) == IF a >= b THEN a ELSE b

\* Math.floor(a / b) for b > 0
FloorDiv(a, b) == IF a >= 0 THEN a \div b ELSE -((-a + b - 1) \div b)

\* nearest integer to a / b for b > 0 (pixel rounding of the smoothing)
RoundDiv(a, b) == FloorDiv(2 * a + b, 2 * b)

RECURSIVE Gcd(_, _)
Gcd(a, b) == IF b = 0 THEN a ELSE Gcd(b, a % b)

(* ---------------- score state ---------------- *)
\* accuracy is the exact fraction num/den (it is 100/1 before any judgement)
InitialScore ==
  [totalScore |-> 0, combo |-> 0, maxCombo |-> 0,
   accuracy |-> [num |-> 100, den |-> 1],
   count300 |-> 0, count100 |-> 0, count50 |-> 0, countMiss |-> 0]

HitTypes == {"300", "100", "50", "miss"}

\* variant: the multiplier is the combo before this judgement
updateScoreOldCombo(s, points, hitType) ==
  LET newCombo == IF hitType = "miss" THEN 0 ELSE s.combo + 1
      n300 == s.count300 + (IF hitType = "300" THEN 1 ELSE 0)
      n100 == s.count100 + (IF hitType = "100" THEN 1 ELSE 0)
      n50 == s.count50 + (IF hitType = "50" THEN 1 ELSE 0)
      nMiss == s.countMiss + (IF hitType = "miss" THEN 1 ELSE 0)
      totalHits == n300 + n100 + n50 + nMiss
  IN [totalScore |-> s.totalScore + points * (IF s.combo = 0 THEN 1 ELSE s.combo),
      combo |-> newCombo,
      maxCombo |-> Max(s.maxCombo, newCombo),
      accuracy |-> IF totalHits > 0
                   THEN [num |-> (n300 * 300 + n100 * 100 + n50 * 50) * 100,
                         den |-> totalHits * 300]
                   ELSE [num |-> 100, den |-> 1],
      count300 |-> n300, count100 |-> n100, count50 |-> n50, countMiss |-> nMiss]

\* variant: a miss leaves the combo as it is
updateScoreKeepCombo(s, points, hitType) ==
  LET newCombo == IF hitType = "miss" THEN s.combo ELSE s.combo + 1
      n300 == s.count300 + (IF hitType = "300" THEN 1 ELSE 0)
      n100 == s.count100 + (IF hitType = "100" THEN 1 ELSE 0)
      n50 == s.count50 + (IF hitType = "50" THEN 1 ELSE 0)
      nMiss == s.countMiss + (IF hitType = "miss" THEN 1 ELSE 0)
      totalHits == n300 + n100 + n50 + nMiss
  IN [totalScore |-> s.totalScore + points * (IF newCombo = 0 THEN 1 ELSE newCombo),
      combo |-> newCombo,
      maxCombo |-> Max(s.maxCombo, newCombo),
      accuracy |-> IF totalHits > 0
                   THEN [num |-> (n300 * 300 + n100 * 100 + n50 * 50) * 100,
                         den |-> totalHits * 300]
                   ELSE [num |-> 100, den |-> 1],
      count300 |-> n300, count100 |-> n100, count50 |-> n50, countMiss |-> nMiss]

\* variant: misses are left out of the accuracy denominator
updateScoreHitsOnly(s, points, hitType) ==
  LET newCombo == IF hitType = "miss" THEN 0 ELSE s.combo + 1
      n300 == s.count300 + (IF hitType = "300" THEN 1 ELSE 0)
      n100 == s.count100 + (IF hitType = "100" THEN 1 ELSE 0)
      n50 == s.count50 + (IF hitType = "50" THEN 1 ELSE 0)
      nMiss == s.countMiss + (IF hitType = "miss" THEN 1 ELSE 0)
      totalHits == n300 + n100 + n50
  IN [totalScore |-> s.totalScore + points * (IF newCombo = 0 THEN 1 ELSE newCombo),
      combo |-> newCombo,
      maxCombo |-> Max(s.maxCombo, newCombo),
      accuracy |-> IF totalHits > 0
                   THEN [num |-> (n300 * 300 + n100 * 100 + n50 * 50) * 100,
                         den |-> totalHits * 300]
                   ELSE [num |-> 100, den |-> 1],
      count300 |-> n300, count100 |-> n100, count50 |-> n50, countMiss |-> nMiss]

updateScore(s, points, hitType) ==
  LET newCombo == IF hitType = "miss" THEN 0 ELSE s.combo + 1
      n300 == s.count300 + (IF hitType = "300" THEN 1 ELSE 0)
      n100 == s.count100 + (IF hitType = "100" THEN 1 ELSE 0)
      n50 == s.count50 + (IF hitType = "50" THEN 1 ELSE 0)
      nMiss == s.countMiss + (IF hitType = "miss" THEN 1 ELSE 0)
      totalHits == n300 + n100 + n50 + nMiss
  IN [totalScore |-> s.totalScore + points * (IF newCombo = 0 THEN 1 ELSE newCombo),
      combo |-> newCombo,
      maxCombo |-> Max(s.maxCombo, newCombo),
      accuracy |-> IF totalHits > 0
                   THEN [num |-> (n300 * 300 + n100 * 100 + n50 * 50) * 100,
                         den |-> totalHits * 300]
                   ELSE [num |-> 100, den |-> 1],
      count300 |-> n300, count100 |-> n100, count50 |-> n50, countMiss |-> nMiss]

TotalJudged(s) == s.count300 + s.count100 + s.count50 + s.countMiss

(* ---------------- chart model ---------------- *)
Pt(x, y) == [x |-> x, y |-> y]

\* one HitObject; sliderPoints = << >> and slides = 0 stand for "undefined"
Obj(id, type, x, y, time, endTime, hitSound, sliderPoints, slides) ==
  [id |-> id, type |-> type, x |-> x, y |-> y, time |-> time, endTime |-> endTime,
   hitSound |-> hitSound, sliderPoints |-> sliderPoints, slides |-> slides,
   hit |-> FALSE, missed |-> FALSE, wasSpun |-> FALSE]

Tap(id, x, y, time, hitSound) == Obj(id, CIRCLE, x, y, time, time, hitSound, << >>, 0)
Hold(id, x, y, time, endTime, pts, slides) == Obj(id, SLIDER, x, y, time, endTime, 0, pts, slides)
Spin(id, time, endTime) == Obj(id, SPINNER, 256, 192, time, endTime, 0, << >>, 0)

\* an undefined duration: no clock reading exceeds it
NoDuration == 1000000

RECURSIVE MaxEndTime(_)
MaxEndTime(objs) ==
  IF objs = << >> THEN 0 ELSE Max(Head(objs).endTime, MaxEndTime(Tail(objs)))

\* a parsed beatmap: duration as the parser derives it, slider multiplier in
\* hundredths (sm100 = 140 is the parser's default 1.4)
\* (with no objects the parser leaves duration undefined, and
\* "currentTime > undefined" is false: NoDuration stands for it)
Beatmap(mode, ar, sm100, objs) ==
  [mode |-> mode, approachRate |-> ar, circleSize |-> 5, sliderMultiplier |-> sm100,
   objects |-> objs,
   duration |-> IF Len(objs) > 0 THEN MaxEndTime(objs) + 1000 ELSE NoDuration,
   audioBuffer |-> TRUE]

StandardCharts ==
  { Beatmap(STANDARD, 5, 140, << Tap(0, 100, 192, 25, 0) >>),
    Beatmap(STANDARD, 5, 140, << Tap(0, 100, 192, 55, 0) >>),
    Beatmap(STANDARD, 10, 140, << Tap(0, 100, 192, 25, 0), Tap(1, 100, 192, 125, 0) >>),
    Beatmap(STANDARD, 5, 140,
            << Hold(0, 100, 192, 25, 125, << Pt(100, 192), Pt(300, 192) >>, 1),
               Tap(1, 300, 192, 125, 0) >>),
    Beatmap(STANDARD, 5, 140, << Spin(0, 25, 125), Tap(1, 100, 192, 175, 0) >>),
    Beatmap(STANDARD, 5, 140, << Hold(0, 100, 192, 25, 125, << Pt(100, 192) >>, 2) >>),
    Beatmap(STANDARD, 5, 140, << Spin(0, 25, 125), Spin(1, 175, 275) >>) }

TaikoCharts ==
  { Beatmap(TAIKO, 5, 140, << Tap(0, 0, 0, 25, 0), Tap(1, 0, 0, 125, 2) >>),
    Beatmap(TAIKO, 5, 100, << Tap(0, 0, 0, 25, 8), Tap(1, 0, 0, 175, 0) >>),
    Beatmap(TAIKO, 5, 140, << Spin(0, 25, 125), Tap(1, 0, 0, 175, 0) >>),
    Beatmap(TAIKO, 5, 140,
            << Hold(0, 0, 0, 55, 155, << Pt(0, 0), Pt(100, 0) >>, 1),
               Tap(1, 0, 0, 225, 2) >>) }

\* a stream of ten notes in lane 1, 5 ms apart, followed by one in lane 3
LaneStream == [n \in 1..10 |-> Tap(n - 1, 200, 0, 20 + 5 * n, 0)]

ManiaCharts ==
  { Beatmap(MANIA, 5, 140, << Tap(0, 400, 0, 25, 0), Tap(1, 64, 0, 25, 0) >>),
    Beatmap(MANIA, 5, 100, << Tap(0, 200, 0, 55, 0), Tap(1, 200, 0, 125, 0) >>),
    Beatmap(MANIA, 5, 200,
            << Hold(0, 300, 0, 25, 125, << Pt(300, 0), Pt(300, 100) >>, 1),
               Tap(1, 400, 0, 75, 0) >>),
    Beatmap(MANIA, 5, 100, LaneStream \o << Tap(10, 400, 0, 75, 0) >>) }

Charts == StandardCharts \cup TaikoCharts \cup ManiaCharts

\* an .osu file without hit objects, as parseOsuFile returns it
EmptyChart == Beatmap(STANDARD, 5, 140, << >>)

\* the charts an .osz archive's .osu file can parse to
ParsedCharts == Charts \cup { EmptyChart }

\* variant: every parsed chart is kept
loadOszKeepAll(parsed) == parsed

\* loadOsz: the parsed charts of an archive, those without objects dropped
loadOsz(parsed) == SelectSeq(parsed, LAMBDA p : Len(p.objects) > 0)

(* ---------------- the session's copy of the chart ---------------- *)
\* JSON.parse(JSON.stringify(objs)): a new list of new objects that carry the
\* serialisable own properties of the originals (numbers, booleans, arrays of
\* points); nothing is shared with the argument
JsonCopy(objs) ==
  [n \in 1..Len(objs) |->
     [id |-> objs[n].id, type |-> objs[n].type, x |-> objs[n].x, y |-> objs[n].y,
      time |-> objs[n].time, endTime |-> objs[n].endTime, hitSound |-> objs[n].hitSound,
      sliderPoints |-> [k \in 1..Len(objs[n].sliderPoints) |->
                          Pt(objs[n].sliderPoints[k].x, objs[n].sliderPoints[k].y)],
      slides |-> objs[n].slides,
      hit |-> objs[n].hit, missed |-> objs[n].missed, wasSpun |-> objs[n].wasSpun]]

\* variant: the ref is initialised again from its argument on every render
useRefReinitialised(current, initialValue) == initialValue

\* useRef(initialValue).current on a render after the first: the argument is
\* evaluated and ignored, the ref keeps what the session has written to it
useRefCurrent(current, initialValue) == current

\* variant: objects.current is the prop's own list, so every write of the
\* session shows in the beatmap
PropAfterWriteShared(bm, objs) == [bm EXCEPT !.objects = objs]

\* the beatmap prop after the session has written objs to objects.current:
\* objects.current is a JSON copy, the prop's own list is not touched
PropAfterWrite(bm, objs) == bm

(* ---------------- derived play-field quantities ---------------- *)
\* getApproachTime(ar), for an integer approach rate
getApproachTime(ar) ==
  IF ar < 5 THEN 1200 + (600 * (5 - ar)) \div 5
  ELSE IF ar = 5 THEN 1200
  ELSE 1200 - (750 * (ar - 5)) \div 5

\* circleRadius = 54.4 - 4.48 * circleSize, in hundredths of a chart pixel
circleRadius100(bm) == 5440 - 448 * bm.circleSize

\* resize(): the transform; the window is chosen so that the scale is exact
Scale100 == (Min((innerWidth * 1000) \div OSU_RES_X, (innerHeight * 1000) \div OSU_RES_Y) * 8) \div 100
OffsetX == (innerWidth * 100 - OSU_RES_X * Scale100) \div 200
OffsetY == (innerHeight * 100 - OSU_RES_Y * Scale100) \div 200
ScreenX(x) == (x * Scale100) \div 100 + OffsetX
ScreenY(y) == (y * Scale100) \div 100 + OffsetY

\* sqrt(dx^2 + dy^2) <= r, with r = R + f/100 given in hundredths of a screen
\* pixel; floor(r^2) = R^2 + floor((200 R f + f^2) / 10000)
WithinRadius(dx, dy, r100) ==
  LET R == r100 \div 100
      f == r100 % 100
  IN /\ Abs(dx) <= R + 1
     /\ Abs(dy) <= R + 1
     /\ dx * dx + dy * dy <= R * R + (200 * R * f + f * f) \div 10000

\* taikoScrollSpeed = 1.4 * sliderMultiplier * 0.45, in 1/10000 px per ms
taikoScrollSpeed(bm) == 63 * bm.sliderMultiplier
\* maniaScrollSpeed = 1.4 * sliderMultiplier * 0.55, in 1/10000 px per ms
maniaScrollSpeed(bm) == 77 * bm.sliderMultiplier

\* variant: the column is derived from the chart height instead of its width
ManiaColumnByHeight(obj) == FloorDiv(obj.x * 4, OSU_RES_Y)

\* Math.floor(obj.x * 4 / 512)
ManiaColumn(obj) == FloorDiv(obj.x * 4, OSU_RES_X)

\* Taiko class of an object: blue iff hitSound has bit 2 or bit 8
IsBlue(obj) == ((obj.hitSound \div 2) % 2 = 1) \/ ((obj.hitSound \div 8) % 2 = 1)

Resolved(obj) == obj.hit \/ obj.missed

\* variant: only missed objects are skipped
HandlerSkipsMissedOnly(obj) == obj.missed

\* variant: only hit objects are skipped
HandlerSkipsHitOnly(obj) == obj.hit

\* "if (obj.hit || obj.missed) continue" at the top of every handler scan
HandlerSkips(obj) == obj.hit \/ obj.missed

\* variant: the cursor jumps two places
AdvanceCursorStride(cursor, i) == IF i = cursor THEN cursor + 2 ELSE cursor

\* "if (i === nextHittableIndex.current) nextHittableIndex.current++"
AdvanceCursor(cursor, i) == IF i = cursor THEN cursor + 1 ELSE cursor

(* ---------------- judgement by time delta ---------------- *)
\* variant: the window comparisons are strict
JudgeHitStrict(score, timeDiff) ==
  IF timeDiff < HIT_WINDOW_300 THEN updateScore(score, 300, "300")
  ELSE IF timeDiff < HIT_WINDOW_100 THEN updateScore(score, 100, "100")
  ELSE updateScore(score, 50, "50")

\* the tier ladder of handleStandardInput and handleManiaInput
JudgeHit(score, timeDiff) ==
  IF timeDiff <= HIT_WINDOW_300 THEN updateScore(score, 300, "300")
  ELSE IF timeDiff <= HIT_WINDOW_100 THEN updateScore(score, 100, "100")
  ELSE updateScore(score, 50, "50")

\* the tier ladder of handleTaikoInput (its last branch awards 300)
JudgeHitTaiko(score, timeDiff) ==
  IF timeDiff <= HIT_WINDOW_300 THEN updateScore(score, 300, "300")
  ELSE IF timeDiff <= HIT_WINDOW_100 THEN updateScore(score, 100, "100")
  ELSE updateScore(score, 300, "300")

(* ---------------- discrete press handlers ---------------- *)
\* handleStandardInput: scan list[i .. searchLimit-1] (0-based i)
RECURSIVE StandardScan(_, _, _, _, _, _, _, _)
StandardScan(bm, objs, score, i, searchLimit, currentTime, clientX, clientY) ==
  IF i >= searchLimit THEN [objects |-> objs, score |-> score]
  ELSE
    LET obj == objs[i + 1]
        timeDiff == Abs(currentTime - obj.time)
    IN IF HandlerSkips(obj)
         THEN StandardScan(bm, objs, score, i + 1, searchLimit, currentTime, clientX, clientY)
       ELSE IF currentTime < obj.time - getApproachTime(bm.approachRate)
         THEN [objects |-> objs, score |-> score]
       ELSE IF /\ obj.type \in {CIRCLE, SLIDER}
               /\ WithinRadius(clientX - ScreenX(obj.x), clientY - ScreenY(obj.y),
                               (circleRadius100(bm) * Scale100 * 15) \div 1000)
               /\ timeDiff <= HIT_WINDOW_50
         THEN [objects |-> [objs EXCEPT ![i + 1].hit = TRUE],
               score |-> JudgeHit(score, timeDiff)]
       ELSE StandardScan(bm, objs, score, i + 1, searchLimit, currentTime, clientX, clientY)

\* variant: the press resolves the last object of the window that passes
handleStandardInputLast(bm, objs, cursor, score, currentTime, clientX, clientY) ==
  LET pass == { i \in (cursor + 1)..Min(cursor + SEARCH_AHEAD, Len(objs)) :
                  /\ ~HandlerSkips(objs[i])
                  /\ objs[i].type \in {CIRCLE, SLIDER}
                  /\ WithinRadius(clientX - ScreenX(objs[i].x), clientY - ScreenY(objs[i].y),
                                  (circleRadius100(bm) * Scale100 * 15) \div 1000)
                  /\ Abs(currentTime - objs[i].time) <= HIT_WINDOW_50 }
  IN IF pass = {} THEN [objects |-> objs, score |-> score]
     ELSE LET i == CHOOSE j \in pass : \A k \in pass : k <= j
          IN [objects |-> [objs EXCEPT ![i].hit = TRUE],
              score |-> JudgeHit(score, Abs(currentTime - objs[i].time))]

\* handleStandardInput: scan list[cursor .. searchLimit - 1]
handleStandardInput(bm, objs, cursor, score, currentTime, clientX, clientY) ==
  StandardScan(bm, objs, score, cursor, Min(cursor + SEARCH_AHEAD, Len(objs)),
               currentTime, clientX, clientY)

\* handleTaikoInput: scan list[i ..] (0-based i); keyType is "inner" or
\* "outer", lastHitTime is taikoDrumState.lastHitTime and now the reading of
\* Date.now() the handler takes when a press scores
RECURSIVE TaikoScan(_, _, _, _, _, _, _)
TaikoScan(objs, score, i, currentTime, keyType, lastHitTime, now) ==
  IF i >= Len(objs) THEN [objects |-> objs, score |-> score, lastHitTime |-> lastHitTime]
  ELSE
    LET obj == objs[i + 1]
        timeDiff == Abs(currentTime - obj.time)
    IN IF HandlerSkips(obj)
         THEN TaikoScan(objs, score, i + 1, currentTime, keyType, lastHitTime, now)
       ELSE IF obj.time - currentTime > HIT_WINDOW_50
         THEN [objects |-> objs, score |-> score, lastHitTime |-> lastHitTime]
       ELSE IF obj.type \in {CIRCLE, SLIDER}
         THEN IF timeDiff <= HIT_WINDOW_50
                THEN IF (keyType = "inner" /\ ~IsBlue(obj)) \/ (keyType = "outer" /\ IsBlue(obj))
                       THEN [objects |-> [objs EXCEPT ![i + 1].hit = TRUE],
                             score |-> JudgeHitTaiko(score, timeDiff),
                             lastHitTime |-> now]
                       ELSE TaikoScan(objs, score, i + 1, currentTime, keyType, lastHitTime, now)
              ELSE IF currentTime > obj.time + HIT_WINDOW_50
                THEN TaikoScan([objs EXCEPT ![i + 1].missed = TRUE],
                               updateScore(score, 0, "miss"), i + 1, currentTime, keyType,
                               lastHitTime, now)
              ELSE TaikoScan(objs, score, i + 1, currentTime, keyType, lastHitTime, now)
       ELSE IF obj.type = SPINNER /\ currentTime >= obj.time /\ currentTime <= obj.endTime
         THEN [objects |-> objs, score |-> updateScore(score, 100, "100"),
               lastHitTime |-> now]
       ELSE TaikoScan(objs, score, i + 1, currentTime, keyType, lastHitTime, now)

\* variant: the drum handler times the press by the wall clock
handleTaikoInputByWallClock(objs, cursor, score, currentTime, keyType, lastHitTime, now) ==
  TaikoScan(objs, score, cursor, now - WallEpoch - LEAD_IN - AUDIO_OFFSET, keyType,
            lastHitTime, now)

handleTaikoInput(objs, cursor, score, currentTime, keyType, lastHitTime, now) ==
  TaikoScan(objs, score, cursor, currentTime, keyType, lastHitTime, now)

\* handleManiaInput with isDown = true: scan list[i ..] (0-based i)
RECURSIVE ManiaScan(_, _, _, _, _)
ManiaScan(objs, score, i, currentTime, columnIndex) ==
  IF i >= Len(objs) THEN [objects |-> objs, score |-> score]
  ELSE
    LET obj == objs[i + 1]
        timeDiff == Abs(currentTime - obj.time)
    IN IF HandlerSkips(obj)
         THEN ManiaScan(objs, score, i + 1, currentTime, columnIndex)
       ELSE IF ManiaColumn(obj) # columnIndex
         THEN ManiaScan(objs, score, i + 1, currentTime, columnIndex)
       ELSE IF obj.time - currentTime > HIT_WINDOW_50
         THEN [objects |-> objs, score |-> score]
       ELSE IF timeDiff <= HIT_WINDOW_50
         THEN [objects |-> [objs EXCEPT ![i + 1].hit = TRUE],
               score |-> JudgeHit(score, timeDiff)]
       ELSE ManiaScan(objs, score, i + 1, currentTime, columnIndex)

handleManiaInput(objs, cursor, score, currentTime, columnIndex, isDown) ==
  IF ~isDown THEN [objects |-> objs, score |-> score]
  ELSE ManiaScan(objs, score, cursor, currentTime, columnIndex)

(* ---------------- continuous mechanics of Standard mode ---------------- *)
\* lerp(start, end, 0.67), rounded to the pixel
lerp(start, end) == start + RoundDiv((end - start) * 67, 100)

\* Math.atan2(dy, dx) in eighths of a turn, rounded down; range -4 .. 4
Atan2(dy, dx) ==
  IF dy >= 0
    THEN IF dx > 0 THEN (IF dy < dx THEN 0 ELSE 1)
         ELSE IF dx = 0 THEN (IF dy > 0 THEN 2 ELSE 0)
         ELSE IF dy > -dx THEN 2
         ELSE IF dy > 0 THEN 3
         ELSE 4
    ELSE IF dx > 0 THEN (IF -dy <= dx THEN -1 ELSE -2)
         ELSE IF dx = 0 THEN -2
         ELSE IF -dy >= -dx THEN -3
         ELSE -4

\* atan2(sin(a - b), cos(a - b)): the shortest signed difference, in eighths
ShortestDelta(a, b) == (((a - b) + 3) % 8) - 3

\* 8 * PI in eighths of a turn
SPIN_CLEAR == 32

\* the slider ball of the draw loop: TRUE iff the ball position is a number
\* and the smoothed pointer m is within 2.5 radii of it.  The position is
\* the exact rational (bxN / sd, byN / sd) in screen pixels.
BallFollowed(bm, obj, currentTime, m) ==
  LET D == obj.endTime - obj.time
      S == IF obj.slides = 0 THEN 1 ELSE obj.slides
      e == currentTime - obj.time
      pLen == Len(obj.sliderPoints) - 1
  IN IF D = 0 THEN FALSE
     ELSE
       LET q == (e * S) \div D
           r == (e * S) % D
           vpNum == IF q % 2 = 1 THEN D - r ELSE r
           idx == (vpNum * pLen) \div D
           nextIdx == Min(idx + 1, pLen)
           subNum == (vpNum * pLen) % D
           g == Gcd(D, subNum)
           sn == subNum \div g
           sd == D \div g
           p0 == obj.sliderPoints[idx + 1]
           p1 == obj.sliderPoints[nextIdx + 1]
           bxN == ((p0.x * sd + (p1.x - p0.x) * sn) * Scale100) \div 100 + OffsetX * sd
           byN == ((p0.y * sd + (p1.y - p0.y) * sn) * Scale100) \div 100 + OffsetY * sd
       IN WithinRadius(m.x * sd - bxN, m.y * sd - byN,
                       ((circleRadius100(bm) * Scale100 * 25) \div 1000) * sd)

\* the repeat-arrow block reads sliderPoints[pLen-1] or sliderPoints[1]; with
\* a single control point that element is undefined and the read throws
RepeatArrowThrows(obj, currentTime) ==
  LET D == obj.endTime - obj.time
      pLen == Len(obj.sliderPoints) - 1
  IN /\ obj.slides > 1
     /\ \/ D > 0 /\ FloorDiv((currentTime - obj.time) * obj.slides, D) < obj.slides - 1
        \/ D = 0 /\ currentTime < obj.time
     /\ pLen = 0

(* ---------------- the draw tick: per-mode object loops ---------------- *)
\* variant: following judges the Hold on every followed frame
FollowJudgesAlways(obj) == TRUE

\* "if (!obj.hit)" around the follow judgement of a Hold
FollowJudges(obj) == ~obj.hit

\* Standard loop, 0-based i; st = [objects, cursor, score, allDone, spinner, threw];
\* now is the frame's reading of Date.now(), rpm is in whole turns per minute
RECURSIVE StandardLoop(_, _, _, _, _, _, _)
StandardLoop(bm, st, i, currentTime, m, isDown, now) ==
  IF i >= Len(st.objects) THEN st
  ELSE
    LET obj == st.objects[i + 1]
        timeUntilHit == obj.time - currentTime
    IN IF \/ (obj.type = CIRCLE /\ (obj.hit \/ obj.missed))
          \/ (obj.type # CIRCLE /\ currentTime > obj.endTime + LINGER)
         THEN StandardLoop(bm,
                [st EXCEPT !.cursor = AdvanceCursor(st.cursor, i)],
                i + 1, currentTime, m, isDown, now)
       ELSE
         LET st1 == [st EXCEPT !.allDone = FALSE]
         IN IF timeUntilHit < -HIT_WINDOW_50 /\ ~obj.hit /\ obj.type = CIRCLE
              THEN StandardLoop(bm,
                     [st1 EXCEPT !.objects[i + 1].missed = TRUE,
                                 !.score = updateScore(st1.score, 0, "miss")],
                     i + 1, currentTime, m, isDown, now)
            ELSE IF timeUntilHit > getApproachTime(bm.approachRate)
              THEN st1
            ELSE IF obj.type = SLIDER /\ obj.sliderPoints # << >>
              THEN IF RepeatArrowThrows(obj, currentTime)
                     THEN [st1 EXCEPT !.threw = TRUE]
                   ELSE IF /\ currentTime >= obj.time
                           /\ currentTime <= obj.endTime
                           /\ isDown
                           /\ BallFollowed(bm, obj, currentTime, m)
                           /\ FollowJudges(obj)
                     THEN StandardLoop(bm,
                            [st1 EXCEPT !.objects[i + 1].hit = TRUE,
                                        !.score = updateScore(st1.score, 300, "300")],
                            i + 1, currentTime, m, isDown, now)
                   ELSE StandardLoop(bm, st1, i + 1, currentTime, m, isDown, now)
            ELSE IF obj.type = SPINNER /\ currentTime >= obj.time /\ currentTime <= obj.endTime
              THEN
                LET angle == Atan2(m.y - innerHeight \div 2, m.x - innerWidth \div 2)
                    deltaAngle == ShortestDelta(angle, st1.spinner.lastAngle)
                    total == IF isDown THEN st1.spinner.totalRotation + Abs(deltaAngle)
                             ELSE st1.spinner.totalRotation
                    clear == isDown /\ total > SPIN_CLEAR /\ ~obj.wasSpun
                    deltaT == now - st1.spinner.lastTime
                    currentRPM == IF deltaT > 0 THEN (Abs(deltaAngle) * 7500) \div deltaT ELSE 0
                    rpm == IF isDown
                             THEN IF deltaT > 0
                                    THEN (st1.spinner.rpm * 9 + currentRPM) \div 10
                                    ELSE st1.spinner.rpm
                           ELSE (st1.spinner.rpm * 95) \div 100
                    st2 == [st1 EXCEPT !.spinner = [lastAngle |-> angle, totalRotation |-> total,
                                                    rpm |-> rpm, lastTime |-> now]]
                IN IF clear
                     THEN StandardLoop(bm,
                            [st2 EXCEPT !.objects[i + 1].wasSpun = TRUE,
                                        !.objects[i + 1].hit = TRUE,
                                        !.score = updateScore(st2.score, 300, "300")],
                            i + 1, currentTime, m, isDown, now)
                   ELSE StandardLoop(bm, st2, i + 1, currentTime, m, isDown, now)
            ELSE StandardLoop(bm, st1, i + 1, currentTime, m, isDown, now)

\* Taiko loop: x = TAIKO_HIT_X + (time - currentTime) * taikoScrollSpeed
RECURSIVE TaikoLoop(_, _, _, _)
TaikoLoop(bm, st, i, currentTime) ==
  IF i >= Len(st.objects) THEN st
  ELSE
    LET obj == st.objects[i + 1]
        dx10000 == (obj.time - currentTime) * taikoScrollSpeed(bm)
    IN IF obj.hit \/ obj.missed
         THEN TaikoLoop(bm,
                [st EXCEPT !.cursor = AdvanceCursor(st.cursor, i)],
                i + 1, currentTime)
       ELSE IF dx10000 > (innerWidth + 100 - TAIKO_HIT_X) * 10000
         THEN st
       ELSE IF dx10000 < -100 * 10000 /\ obj.type = CIRCLE
         THEN TaikoLoop(bm,
                [st EXCEPT !.objects[i + 1].missed = TRUE,
                           !.score = updateScore(st.score, 0, "miss")],
                i + 1, currentTime)
       ELSE TaikoLoop(bm, st, i + 1, currentTime)

\* Mania loop: noteY = hitY - (time - currentTime) * maniaScrollSpeed,
\* hitY = innerHeight - MANIA_HIT_Y_OFFSET
RECURSIVE ManiaLoop(_, _, _, _)
ManiaLoop(bm, st, i, currentTime) ==
  IF i >= Len(st.objects) THEN st
  ELSE
    LET obj == st.objects[i + 1]
        col == ManiaColumn(obj)
        dy10000 == (obj.time - currentTime) * maniaScrollSpeed(bm)
        hitY == innerHeight - MANIA_HIT_Y_OFFSET
    IN IF obj.hit \/ obj.missed
         THEN ManiaLoop(bm,
                [st EXCEPT !.cursor = AdvanceCursor(st.cursor, i)],
                i + 1, currentTime)
       ELSE IF col < 0 \/ col > 3
         THEN ManiaLoop(bm, st, i + 1, currentTime)
       ELSE IF dy10000 > (hitY + 200) * 10000
         THEN st
       ELSE IF -dy10000 > (innerHeight + 50 - hitY) * 10000 /\ ~obj.hit
         THEN ManiaLoop(bm,
                [st EXCEPT !.objects[i + 1].missed = TRUE,
                           !.score = updateScore(st.score, 0, "miss")],
                i + 1, currentTime)
       ELSE ManiaLoop(bm, st, i + 1, currentTime)

\* the body of one draw() call up to the finish check
draw(bm, objs, cursor, score, spinner, currentTime, m, isDown, now) ==
  LET st0 == [objects |-> objs, cursor |-> cursor, score |-> score,
              allDone |-> TRUE, spinner |-> spinner, threw |-> FALSE]
  IN IF bm.mode = STANDARD THEN StandardLoop(bm, st0, cursor, currentTime, m, isDown, now)
     ELSE IF bm.mode = TAIKO THEN TaikoLoop(bm, st0, cursor, currentTime)
     ELSE IF bm.mode = MANIA THEN ManiaLoop(bm, st0, cursor, currentTime)
     ELSE st0

(* ---------------- Catch mode ---------------- *)
\* (the sources hold the types and the key bindings of Catch mode only; its
\* engine is modelled from the written description of the mode)
\* the time between two sub-droplets of a juice stream, ms
DROPLET_INTERVAL == 50
\* the grace window after the arrival instant, ms
CATCH_GRACE == 50
\* catcher half width plus the tolerance from the fruit radius, chart pixels
CATCH_REACH == 60
\* the reduced point value of a droplet or pickup
DROPLET_POINTS == 10
\* catcher speed, chart pixels per ms (dashing doubles it)
CATCHER_SPEED == 1
\* the time between two pickups of a banana rain, and their fall time, ms
PICKUP_INTERVAL == 100
PICKUP_FALL == 100
\* the x positions at which pickups are spawned
PickupXs == {100, 300}

\* catcher position, time of the last frame, per-object caught-droplet sets
\* and tail flags (empty until a session starts), pickup pool, time of the
\* last spawn
InitialCatch ==
  [x |-> OSU_RES_X \div 2, lastFrame |-> -(LEAD_IN + AUDIO_OFFSET),
   caughtDroplets |-> << >>, tailCaught |-> << >>,
   pool |-> {}, lastSpawn |-> -PICKUP_INTERVAL]

DropletCount(obj) == (obj.endTime - obj.time) \div DROPLET_INTERVAL
DropletTime(obj, k) == obj.time + k * DROPLET_INTERVAL
TailX(obj) == obj.sliderPoints[Len(obj.sliderPoints)].x
DropletX(obj, k) == obj.x + ((TailX(obj) - obj.x) * k) \div DropletCount(obj)

\* the horizontal-distance test and the arrival test
Reaches(cx, x) == Abs(x - cx) <= CATCH_REACH
Arrived(now, t) == now >= t /\ now <= t + CATCH_GRACE

\* variant: the caught-droplet set is not consulted
DropletOpenAlways(caught, k) == TRUE

\* a droplet is still to be judged: its index is not in the caught set
DropletOpen(caught, k) == k \notin caught

\* variant: a pickup that falls past the bottom counts as a miss
PickupLostAsMiss(score) == updateScore(score, 0, "miss")

\* a pickup that falls past the bottom uncaught is silently discarded
PickupLost(score) == score

\* n pickups fall past the bottom
RECURSIVE DiscardEach(_, _)
DiscardEach(score, n) == IF n = 0 THEN score ELSE DiscardEach(PickupLost(score), n - 1)

\* n judgements of one kind
RECURSIVE ScoreEach(_, _, _, _)
ScoreEach(score, n, points, hitType) ==
  IF n = 0 THEN score ELSE ScoreEach(updateScore(score, points, hitType), n - 1, points, hitType)

\* the catcher after a frame: position += direction * speed * frameDelta,
\* clamped to the chart
MoveCatcher(x, held, delta) ==
  LET dir == (IF "ArrowRight" \in held THEN 1 ELSE 0) - (IF "ArrowLeft" \in held THEN 1 ELSE 0)
      speed == IF "Shift" \in held THEN 2 * CATCHER_SPEED ELSE CATCHER_SPEED
  IN Max(0, Min(OSU_RES_X, x + dir * speed * delta))

\* Catch loop, 0-based i; st = [objects, cursor, score, caughtDroplets, tailCaught]
RECURSIVE CatchLoop(_, _, _, _)
CatchLoop(st, i, now, cx) ==
  IF i >= Len(st.objects) THEN st
  ELSE
    LET obj == st.objects[i + 1]
    IN IF obj.type = CIRCLE
         THEN IF obj.hit \/ obj.missed
                THEN CatchLoop([st EXCEPT !.cursor = AdvanceCursor(st.cursor, i)], i + 1, now, cx)
              ELSE IF Arrived(now, obj.time) /\ Reaches(cx, obj.x)
                THEN CatchLoop([st EXCEPT !.objects[i + 1].hit = TRUE,
                                          !.score = updateScore(st.score, 300, "300")],
                               i + 1, now, cx)
              ELSE IF now > obj.time + CATCH_GRACE
                THEN CatchLoop([st EXCEPT !.objects[i + 1].missed = TRUE,
                                          !.score = updateScore(st.score, 0, "miss")],
                               i + 1, now, cx)
              ELSE CatchLoop(st, i + 1, now, cx)
       ELSE IF obj.type = SLIDER
         THEN IF now > obj.endTime + CATCH_GRACE /\ (obj.hit \/ obj.missed)
                THEN CatchLoop([st EXCEPT !.cursor = AdvanceCursor(st.cursor, i)], i + 1, now, cx)
              ELSE
                LET headOpen == ~obj.hit /\ ~obj.missed
                    headCaught == headOpen /\ Arrived(now, obj.time) /\ Reaches(cx, obj.x)
                    headMissed == headOpen /\ ~headCaught /\ now > obj.time + CATCH_GRACE
                    s1 == IF headCaught THEN updateScore(st.score, 300, "300")
                          ELSE IF headMissed THEN updateScore(st.score, 0, "miss")
                          ELSE st.score
                    caught == st.caughtDroplets[i + 1]
                    new == { k \in 1..DropletCount(obj) :
                               /\ DropletOpen(caught, k)
                               /\ Arrived(now, DropletTime(obj, k))
                               /\ Reaches(cx, DropletX(obj, k)) }
                    s2 == ScoreEach(s1, Cardinality(new), DROPLET_POINTS, "100")
                    tail == /\ ~st.tailCaught[i + 1]
                            /\ Arrived(now, obj.endTime)
                            /\ Reaches(cx, TailX(obj))
                    s3 == IF tail THEN updateScore(s2, 300, "300") ELSE s2
                IN CatchLoop([st EXCEPT !.objects[i + 1].hit = obj.hit \/ headCaught,
                                        !.objects[i + 1].missed = obj.missed \/ headMissed,
                                        !.caughtDroplets[i + 1] = caught \cup new,
                                        !.tailCaught[i + 1] = st.tailCaught[i + 1] \/ tail,
                                        !.score = s3],
                             i + 1, now, cx)
       ELSE IF now > obj.endTime
         THEN CatchLoop([st EXCEPT !.cursor = AdvanceCursor(st.cursor, i)], i + 1, now, cx)
       ELSE CatchLoop(st, i + 1, now, cx)

\* a banana rain is active at now
RainActive(objs, now) ==
  \E i \in 1..Len(objs) :
    objs[i].type = SPINNER /\ now >= objs[i].time /\ now <= objs[i].endTime

(* ---------------- scheduling of the tick and of the listeners ---------------- *)
\* variant: the frame is requested again after onFinish
TickScheduledAfterFinish(ph) == ph \in {"Running", "Finished"}

\* variant: the cleanup does not cancel the pending frame
TickScheduledAfterQuit(ph) == ph \in {"Running", "Back", "Unmounted"}

\* a frame is pending: draw() requests the next one unless it threw or called
\* onFinish, and the cleanup cancels it
TickScheduled(ph) == ph = "Running"

\* variant: auto-repeat events are handled like presses
IgnoresRepeatNever(repeat) == FALSE

\* "if (e.repeat) return" at the top of the keydown listener
IgnoresRepeat(repeat) == repeat

(* ---------------- settings (DEFAULT_SETTINGS) ---------------- *)
settings ==
  [keys |-> [standard |-> << "z", "x" >>,
             taiko |-> << "x", "c", "v", "b" >>,
             mania4k |-> << "d", "f", "j", "k" >>,
             catch |-> << "ArrowLeft", "ArrowRight", "Shift" >>]]

\* Array.indexOf, 0-based, -1 when absent
IndexOf(seq, k) ==
  IF \E n \in 1..Len(seq) : seq[n] = k
    THEN (CHOOSE n \in 1..Len(seq) : seq[n] = k /\ \A j \in 1..(n - 1) : seq[j] # k) - 1
    ELSE -1

\* the keys the player uses in a session (in Standard mode next to the mouse
\* button): bound keys and, in Taiko and Mania, one key the mode leaves unbound
KeysOf(mode) ==
  IF mode = STANDARD THEN {"z"}
  ELSE IF mode = TAIKO THEN {"x", "c", "v", "z"}
  ELSE IF mode = CATCH THEN {"ArrowLeft", "ArrowRight"}
  ELSE {"d", "k", "z"}

\* pointer positions the player moves to (screen pixels): on the chart
\* positions (100,192) and (300,192), left and right of the screen centre
PointerTargets == { Pt(164, 240), Pt(364, 240) }

(* ---------------- state ---------------- *)
VARIABLES
  beatmap,            \* the loaded beatmap (prop of the component)
  objects,            \* objects.current: the session's copy of the chart
  nextHittableIndex,  \* the advance cursor (0-based)
  scoreRef,           \* scoreRef.current
  audioClock,         \* audioCtx.currentTime, in ms
  startTimeRef,       \* startTimeRef.current, in ms
  mouseState,         \* raw pointer position and the pointer-held flag
  visualMouse,        \* smoothed pointer position
  spinnerState,       \* lastAngle, totalRotation (eighths of a turn), rpm, lastTime
  taikoDrumState,     \* drum pad flags, lastHitTime
  maniaKeyState,      \* lane key flags
  keysHeld,           \* keys and buttons the player is physically holding
  allBeatmaps,        \* the App's list of loaded beatmaps
  finalScore,         \* the ScoreData values handed to onFinish, in order
  phase,              \* Menu, SongSelect, Running, Idle, Finished, Back, Crashed, Unmounted
  wallClock,          \* the reading of Date.now(), in ms
  catchState,         \* Catch mode: catcher, caught droplets, pickup pool
  judgements          \* history: the hit types handed to updateScore, in order
                      \* (kept in the sessions of ComboSpec)

vars == << beatmap, objects, nextHittableIndex, scoreRef, audioClock, startTimeRef,
           mouseState, visualMouse, spinnerState, taikoDrumState, maniaKeyState,
           keysHeld, allBeatmaps, finalScore, phase, wallClock, catchState,
           judgements >>

\* (audioCtx.currentTime - startTimeRef.current) * 1000 - AUDIO_OFFSET
CurrentTime == (audioClock - startTimeRef) - AUDIO_OFFSET

\* the GameCanvas component is mounted (its listeners are attached); in
\* phase Idle the draw effect has returned at its audioBuffer guard
Mounted == phase \in {"Running", "Finished", "Back", "Crashed", "Idle"}

\* the App before a beatmap is loaded; beatmap is the chart in the archive
\* the player is about to drop (it becomes the selected map)
InitOn(charts) ==
  /\ beatmap \in charts
  /\ objects = << >>
  /\ nextHittableIndex = 0
  /\ scoreRef = InitialScore
  /\ audioClock = 0
  /\ startTimeRef = audioClock + LEAD_IN
  /\ mouseState = [x |-> innerWidth \div 2, y |-> innerHeight \div 2, isDown |-> FALSE]
  /\ visualMouse = Pt(innerWidth \div 2, innerHeight \div 2)
  /\ spinnerState = [lastAngle |-> 0, totalRotation |-> 0, rpm |-> 0, lastTime |-> 0]
  /\ taikoDrumState = [leftInner |-> FALSE, rightInner |-> FALSE,
                       leftOuter |-> FALSE, rightOuter |-> FALSE,
                       lastHitTime |-> 0]
  /\ maniaKeyState = << FALSE, FALSE, FALSE, FALSE >>
  /\ keysHeld = {}
  /\ allBeatmaps = << >>
  /\ finalScore = << >>
  /\ phase = "Menu"
  /\ wallClock = WallEpoch
  /\ catchState = InitialCatch
  /\ judgements = << >>

Init == InitOn(ParsedCharts)

\* the player drops the archive: its charts are loaded into the song list
LoadOsz ==
  /\ UNCHANGED << wallClock, catchState, judgements >>
  /\ phase = "Menu"
  /\ allBeatmaps' = loadOsz(<< beatmap >>) \o allBeatmaps
  /\ phase' = "SongSelect"
  /\ UNCHANGED << beatmap, objects, nextHittableIndex, scoreRef, audioClock, startTimeRef,
                  mouseState, visualMouse, spinnerState, taikoDrumState, maniaKeyState,
                  keysHeld, finalScore >>

\* startMap(map): the App mounts GameCanvas with a map of the song list
startMap ==
  /\ UNCHANGED << wallClock, catchState, judgements >>
  /\ phase = "SongSelect"
  /\ \E n \in 1..Len(allBeatmaps) :
       /\ beatmap' = allBeatmaps[n]
       /\ objects' = JsonCopy(allBeatmaps[n].objects)
  /\ nextHittableIndex' = 0
  /\ scoreRef' = InitialScore
  /\ startTimeRef' = IF beatmap'.audioBuffer THEN audioClock + LEAD_IN ELSE 0
  /\ mouseState' = [x |-> innerWidth \div 2, y |-> innerHeight \div 2, isDown |-> FALSE]
  /\ visualMouse' = Pt(innerWidth \div 2, innerHeight \div 2)
  /\ spinnerState' = [lastAngle |-> 0, totalRotation |-> 0, rpm |-> 0, lastTime |-> 0]
  /\ taikoDrumState' = [leftInner |-> FALSE, rightInner |-> FALSE,
                        leftOuter |-> FALSE, rightOuter |-> FALSE,
                        lastHitTime |-> 0]
  /\ maniaKeyState' = << FALSE, FALSE, FALSE, FALSE >>
  /\ phase' = IF beatmap'.audioBuffer THEN "Running" ELSE "Idle"
  /\ UNCHANGED << audioClock, keysHeld, allBeatmaps, finalScore >>

(* ---------------- actions ---------------- *)
\* the audio clock advances to its next reading (leaving the screen after
\* onFinish / onBack takes less than one reading)
AdvanceClock ==
  /\ UNCHANGED << wallClock, catchState, judgements >>
  /\ phase \in {"Running", "Crashed", "Idle"}
  /\ audioClock < MaxClock
  /\ audioClock' = audioClock + (IF audioClock >= startTimeRef /\ audioClock < startTimeRef + FineSpan
                                  THEN ClockStep ELSE CoarseStep)
  /\ UNCHANGED << allBeatmaps, finalScore, beatmap, objects, nextHittableIndex, scoreRef, startTimeRef, mouseState,
                  visualMouse, spinnerState, taikoDrumState, maniaKeyState, keysHeld, phase >>

\* one animation frame: draw()
Draw ==
  /\ UNCHANGED << wallClock, catchState, judgements >>
  /\ TickScheduled(phase)
  /\ LET m == Pt(lerp(visualMouse.x, mouseState.x), lerp(visualMouse.y, mouseState.y))
         st == draw(beatmap, objects, nextHittableIndex, scoreRef, spinnerState,
                    CurrentTime, m, mouseState.isDown, wallClock)
     IN /\ visualMouse' = m
        /\ objects' = useRefCurrent(st.objects, JsonCopy(beatmap.objects))
        /\ nextHittableIndex' = st.cursor
        /\ scoreRef' = st.score
        /\ spinnerState' = st.spinner
        /\ phase' = IF st.threw THEN "Crashed"
                    ELSE IF st.allDone /\ CurrentTime > beatmap.duration THEN "Finished"
                    ELSE phase
        /\ finalScore' = IF ~st.threw /\ st.allDone /\ CurrentTime > beatmap.duration
                         THEN Append(finalScore, st.score)
                         ELSE finalScore
  /\ beatmap' = PropAfterWrite(beatmap, objects')
  /\ UNCHANGED << allBeatmaps, audioClock, startTimeRef, mouseState, taikoDrumState,
                  maniaKeyState, keysHeld >>

\* the effect of a keydown listener call on the engine state
keydown(k, repeat) ==
  IF IgnoresRepeat(repeat)
    THEN UNCHANGED << objects, scoreRef, mouseState, taikoDrumState, maniaKeyState >>
  ELSE IF beatmap.mode = STANDARD
    THEN IF IndexOf(settings.keys.standard, k) # -1
           THEN LET r == handleStandardInput(beatmap, objects, nextHittableIndex, scoreRef,
                                             CurrentTime, visualMouse.x, visualMouse.y)
                IN /\ mouseState' = [mouseState EXCEPT !.isDown = TRUE]
                   /\ objects' = r.objects
                   /\ scoreRef' = r.score
                   /\ UNCHANGED << taikoDrumState, maniaKeyState >>
           ELSE UNCHANGED << objects, scoreRef, mouseState, taikoDrumState, maniaKeyState >>
  ELSE IF beatmap.mode = TAIKO
    THEN LET idx == IndexOf(settings.keys.taiko, k)
             keyType == IF idx \in {0, 3} THEN "outer" ELSE "inner"
             r == handleTaikoInput(objects, nextHittableIndex, scoreRef, CurrentTime, keyType,
                                   taikoDrumState.lastHitTime, wallClock)
             ds == [taikoDrumState EXCEPT !.lastHitTime = r.lastHitTime]
         IN IF idx = -1
              THEN UNCHANGED << objects, scoreRef, mouseState, taikoDrumState, maniaKeyState >>
              ELSE /\ taikoDrumState' =
                        IF idx = 0 THEN [ds EXCEPT !.leftOuter = TRUE]
                        ELSE IF idx = 1 THEN [ds EXCEPT !.leftInner = TRUE]
                        ELSE IF idx = 2 THEN [ds EXCEPT !.rightInner = TRUE]
                        ELSE [ds EXCEPT !.rightOuter = TRUE]
                   /\ objects' = r.objects
                   /\ scoreRef' = r.score
                   /\ UNCHANGED << mouseState, maniaKeyState >>
  ELSE IF beatmap.mode = MANIA
    THEN LET index == IndexOf(settings.keys.mania4k, k)
             r == handleManiaInput(objects, nextHittableIndex, scoreRef, CurrentTime, index, TRUE)
         IN IF index = -1
              THEN UNCHANGED << objects, scoreRef, mouseState, taikoDrumState, maniaKeyState >>
              ELSE /\ maniaKeyState' = [maniaKeyState EXCEPT ![index + 1] = TRUE]
                   /\ objects' = r.objects
                   /\ scoreRef' = r.score
                   /\ UNCHANGED << mouseState, taikoDrumState >>
  ELSE UNCHANGED << objects, scoreRef, mouseState, taikoDrumState, maniaKeyState >>

\* the player presses a key (the initial press edge)
KeyDown ==
  /\ UNCHANGED << wallClock, catchState, judgements >>
  /\ Mounted
  /\ Cardinality(keysHeld) < MaxHeld
  /\ TotalJudged(scoreRef) < MaxJudged
  /\ \E k \in KeysOf(beatmap.mode) \ keysHeld :
       /\ keydown(k, FALSE)
       /\ keysHeld' = keysHeld \cup {k}
  /\ beatmap' = PropAfterWrite(beatmap, objects')
  /\ UNCHANGED << allBeatmaps, finalScore, nextHittableIndex, audioClock, startTimeRef, visualMouse,
                  spinnerState, phase >>

\* a held key auto-repeats
KeyRepeat ==
  /\ UNCHANGED << wallClock, catchState, judgements >>
  /\ Mounted
  /\ \E k \in keysHeld \ {"mouse"} : keydown(k, TRUE)
  /\ beatmap' = PropAfterWrite(beatmap, objects')
  /\ UNCHANGED << allBeatmaps, finalScore, nextHittableIndex, audioClock, startTimeRef, visualMouse,
                  spinnerState, keysHeld, phase >>

\* variant: in Lane mode the keyup listener runs the lane handler as a press
KeyUpJudges ==
  /\ UNCHANGED << wallClock, catchState, judgements >>
  /\ Mounted
  /\ beatmap.mode = MANIA
  /\ \E k \in keysHeld :
       LET index == IndexOf(settings.keys.mania4k, k)
           r == handleManiaInput(objects, nextHittableIndex, scoreRef, CurrentTime, index, TRUE)
       IN /\ keysHeld' = keysHeld \ {k}
          /\ maniaKeyState' = IF index # -1
                               THEN [maniaKeyState EXCEPT ![index + 1] = FALSE]
                               ELSE maniaKeyState
          /\ objects' = r.objects
          /\ scoreRef' = r.score
  /\ UNCHANGED << allBeatmaps, finalScore, beatmap, nextHittableIndex, audioClock, startTimeRef,
                  mouseState, visualMouse, spinnerState, taikoDrumState, phase >>

\* the player releases a key: the keyup listener
KeyUp ==
  /\ UNCHANGED << wallClock, catchState, judgements >>
  /\ Mounted
  /\ \E k \in keysHeld \ {"mouse"} :
       /\ keysHeld' = keysHeld \ {k}
       /\ IF beatmap.mode = STANDARD
            THEN /\ mouseState' = IF IndexOf(settings.keys.standard, k) # -1
                                  THEN [mouseState EXCEPT !.isDown = FALSE]
                                  ELSE mouseState
                 /\ UNCHANGED << taikoDrumState, maniaKeyState >>
          ELSE IF beatmap.mode = TAIKO
            THEN LET idx == IndexOf(settings.keys.taiko, k)
                 IN /\ taikoDrumState' =
                         IF idx = 0 THEN [taikoDrumState EXCEPT !.leftOuter = FALSE]
                         ELSE IF idx = 1 THEN [taikoDrumState EXCEPT !.leftInner = FALSE]
                         ELSE IF idx = 2 THEN [taikoDrumState EXCEPT !.rightInner = FALSE]
                         ELSE IF idx = 3 THEN [taikoDrumState EXCEPT !.rightOuter = FALSE]
                         ELSE taikoDrumState
                    /\ UNCHANGED << mouseState, maniaKeyState >>
          ELSE LET index == IndexOf(settings.keys.mania4k, k)
               IN /\ maniaKeyState' = IF beatmap.mode = MANIA /\ index # -1
                                      THEN [maniaKeyState EXCEPT ![index + 1] = FALSE]
                                      ELSE maniaKeyState
                  /\ UNCHANGED << mouseState, taikoDrumState >>
  /\ UNCHANGED << allBeatmaps, finalScore, beatmap, objects, nextHittableIndex, scoreRef, audioClock, startTimeRef,
                  visualMouse, spinnerState, phase >>

\* the mousedown listener
MouseDown ==
  /\ UNCHANGED << wallClock, catchState, judgements >>
  /\ Mounted
  /\ beatmap.mode = STANDARD
  /\ "mouse" \notin keysHeld
  /\ Cardinality(keysHeld) < MaxHeld
  /\ TotalJudged(scoreRef) < MaxJudged
  /\ keysHeld' = keysHeld \cup {"mouse"}
  /\ IF beatmap.mode = STANDARD
       THEN LET r == handleStandardInput(beatmap, objects, nextHittableIndex, scoreRef,
                                         CurrentTime, visualMouse.x, visualMouse.y)
            IN /\ mouseState' = [mouseState EXCEPT !.isDown = TRUE]
               /\ objects' = r.objects
               /\ scoreRef' = r.score
       ELSE UNCHANGED << objects, scoreRef, mouseState >>
  /\ beatmap' = PropAfterWrite(beatmap, objects')
  /\ UNCHANGED << allBeatmaps, finalScore, nextHittableIndex, audioClock, startTimeRef, visualMouse,
                  spinnerState, taikoDrumState, maniaKeyState, phase >>

\* the mouseup listener
MouseUp ==
  /\ UNCHANGED << wallClock, catchState, judgements >>
  /\ Mounted
  /\ beatmap.mode = STANDARD
  /\ "mouse" \in keysHeld
  /\ keysHeld' = keysHeld \ {"mouse"}
  /\ mouseState' = [mouseState EXCEPT !.isDown = FALSE]
  /\ UNCHANGED << allBeatmaps, finalScore, beatmap, objects, nextHittableIndex, scoreRef, audioClock, startTimeRef,
                  visualMouse, spinnerState, taikoDrumState, maniaKeyState, phase >>

\* the mousemove listener (it records the position in Standard mode only);
\* the player moves on once the smoothed pointer has caught up
MouseMove ==
  /\ UNCHANGED << wallClock, catchState, judgements >>
  /\ Mounted
  /\ beatmap.mode = STANDARD
  /\ visualMouse = Pt(mouseState.x, mouseState.y)
  /\ spinnerState.totalRotation < MaxRotation
  /\ \E p \in PointerTargets :
       /\ p # Pt(mouseState.x, mouseState.y)
       /\ mouseState' = [mouseState EXCEPT !.x = p.x, !.y = p.y]
  /\ UNCHANGED << allBeatmaps, finalScore, beatmap, objects, nextHittableIndex, scoreRef, audioClock, startTimeRef,
                  visualMouse, spinnerState, taikoDrumState, maniaKeyState, keysHeld, phase >>

\* Escape (or the quit button): onBack()
Escape ==
  /\ UNCHANGED << wallClock, catchState, judgements >>
  /\ phase \in {"Running", "Crashed", "Idle"}
  /\ phase' = "Back"
  /\ UNCHANGED << allBeatmaps, finalScore, beatmap, objects, nextHittableIndex, scoreRef, audioClock, startTimeRef,
                  mouseState, visualMouse, spinnerState, taikoDrumState, maniaKeyState,
                  keysHeld >>

\* the parent leaves the PLAYING state: both effects are cleaned up
Unmount ==
  /\ UNCHANGED << wallClock, catchState, judgements >>
  /\ phase \in {"Finished", "Back"}
  /\ phase' = "Unmounted"
  /\ UNCHANGED << allBeatmaps, finalScore, beatmap, objects, nextHittableIndex, scoreRef, audioClock, startTimeRef,
                  mouseState, visualMouse, spinnerState, taikoDrumState, maniaKeyState,
                  keysHeld >>

Next ==
  \/ LoadOsz
  \/ startMap
  \/ AdvanceClock
  \/ Draw
  \/ KeyDown
  \/ KeyRepeat
  \/ KeyUp
  \/ MouseDown
  \/ MouseUp
  \/ MouseMove
  \/ Escape
  \/ Unmount

Spec == Init /\ [][Next]_vars

(* ---------------- the wall clock ---------------- *)
\* the charts of the sessions in which the wall clock runs
WallCharts ==
  { Beatmap(STANDARD, 5, 140, << Spin(0, 25, 125) >>),
    Beatmap(TAIKO, 5, 140, << Tap(0, 0, 0, 25, 0), Tap(1, 0, 0, 125, 2) >>) }

WallInit == InitOn(WallCharts)

\* Date.now() moves on, at its own pace
WallTick ==
  /\ phase = "Running"
  /\ wallClock < WallEpoch + MaxWallTicks * WallStep
  /\ wallClock' = wallClock + WallStep
  /\ UNCHANGED << beatmap, objects, nextHittableIndex, scoreRef, audioClock, startTimeRef,
                  mouseState, visualMouse, spinnerState, taikoDrumState, maniaKeyState,
                  keysHeld, allBeatmaps, finalScore, phase, catchState, judgements >>

WallNext ==
  \/ LoadOsz
  \/ startMap
  \/ AdvanceClock
  \/ Draw
  \/ KeyDown
  \/ KeyRepeat
  \/ KeyUp
  \/ MouseDown
  \/ MouseUp
  \/ MouseMove
  \/ Escape
  \/ Unmount
  \/ WallTick

WallSpec == WallInit /\ [][WallNext]_vars

(* ---------------- Catch sessions ---------------- *)
\* a juice stream of four droplets, and a fruit followed by a banana rain
CatchCharts ==
  { Beatmap(CATCH, 5, 140,
            << Hold(0, 100, 192, 25, 225, << Pt(100, 192), Pt(300, 192) >>, 1) >>),
    Beatmap(CATCH, 5, 140, << Tap(0, 256, 192, 25, 0), Spin(1, 75, 275) >>) }

CatchInit == InitOn(CatchCharts)

\* one animation frame of a Catch session: the catcher moves, the objects
\* from the cursor on are judged, pickups are spawned, caught or discarded
CatchDraw ==
  /\ TickScheduled(phase)
  /\ beatmap.mode = CATCH
  /\ LET now == CurrentTime
         cx == MoveCatcher(catchState.x, keysHeld, now - catchState.lastFrame)
         n == Len(objects)
         st == CatchLoop([objects |-> objects, cursor |-> nextHittableIndex, score |-> scoreRef,
                          caughtDroplets |-> IF Len(catchState.caughtDroplets) = n
                                             THEN catchState.caughtDroplets
                                             ELSE [i \in 1..n |-> {}],
                          tailCaught |-> IF Len(catchState.tailCaught) = n
                                         THEN catchState.tailCaught
                                         ELSE [i \in 1..n |-> FALSE]],
                         nextHittableIndex, now, cx)
         caught == { p \in catchState.pool : Arrived(now, p.arrival) /\ Reaches(cx, p.x) }
         lost == { p \in catchState.pool : now > p.arrival + CATCH_GRACE }
         spawn == RainActive(objects, now) /\ now - catchState.lastSpawn >= PICKUP_INTERVAL
         score == DiscardEach(ScoreEach(st.score, Cardinality(caught), DROPLET_POINTS, "300"),
                              Cardinality(lost))
         done == st.cursor = n /\ catchState.pool \ (caught \cup lost) = {} /\ ~spawn
                 /\ now > beatmap.duration
     IN /\ \E px \in PickupXs :
             catchState' = [x |-> cx, lastFrame |-> now,
                            caughtDroplets |-> st.caughtDroplets,
                            tailCaught |-> st.tailCaught,
                            pool |-> (catchState.pool \ (caught \cup lost))
                                       \cup (IF spawn
                                             THEN {[x |-> px, arrival |-> now + PICKUP_FALL]}
                                             ELSE {}),
                            lastSpawn |-> IF spawn THEN now ELSE catchState.lastSpawn]
        /\ objects' = st.objects
        /\ nextHittableIndex' = st.cursor
        /\ scoreRef' = score
        /\ phase' = IF done THEN "Finished" ELSE phase
        /\ finalScore' = IF done THEN Append(finalScore, score) ELSE finalScore
  /\ UNCHANGED << beatmap, allBeatmaps, audioClock, startTimeRef, mouseState, visualMouse,
                  spinnerState, taikoDrumState, maniaKeyState, keysHeld, wallClock,
                  judgements >>

CatchNext ==
  \/ LoadOsz
  \/ startMap
  \/ AdvanceClock
  \/ CatchDraw
  \/ KeyDown
  \/ KeyUp
  \/ Escape
  \/ Unmount

CatchSpec == CatchInit /\ [][CatchNext]_vars

(* ---------------- playing again ---------------- *)
\* the chart of the archive in the sessions that are played again
ReplayCharts == { Beatmap(STANDARD, 5, 140, << Tap(0, 100, 192, 25, 0) >>) }

ReplayInit == InitOn(ReplayCharts)

\* the App is back on the song list (onBack, or the button of the result
\* screen): setGameState(SONG_SELECT)
SongSelectAgain ==
  /\ UNCHANGED << wallClock, catchState, judgements >>
  /\ phase = "Unmounted"
  /\ phase' = "SongSelect"
  /\ UNCHANGED << beatmap, objects, nextHittableIndex, scoreRef, audioClock, startTimeRef,
                  mouseState, visualMouse, spinnerState, taikoDrumState, maniaKeyState,
                  keysHeld, allBeatmaps, finalScore >>

ReplayNext ==
  \/ LoadOsz
  \/ startMap
  \/ AdvanceClock
  \/ Draw
  \/ KeyDown
  \/ KeyRepeat
  \/ KeyUp
  \/ MouseDown
  \/ MouseUp
  \/ MouseMove
  \/ Escape
  \/ Unmount
  \/ SongSelectAgain

ReplaySpec == ReplayInit /\ [][ReplayNext]_vars

(* ---------------- sessions that run on ---------------- *)
\* a Hold whose path is its head point alone and that repeats, two Drum Taps,
\* and a Lane chart of a Tap at the right edge of the chart and a Hold in
\* lane 0
LiveCharts ==
  { Beatmap(STANDARD, 5, 140, << Hold(0, 100, 192, 25, 125, << Pt(100, 192) >>, 2) >>),
    Beatmap(TAIKO, 5, 140, << Tap(0, 0, 0, 25, 0), Tap(1, 0, 0, 125, 2) >>),
    Beatmap(MANIA, 5, 100,
            << Tap(0, 512, 0, 25, 0),
               Hold(1, 64, 0, 75, 275, << Pt(64, 0), Pt(64, 100) >>, 1) >>) }

LiveInit == InitOn(LiveCharts)

\* the audio context's clock runs on by itself, and draw() requests the next
\* frame at its end: neither waits for the player
LiveSpec == LiveInit /\ [][Next]_vars /\ WF_vars(AdvanceClock) /\ WF_vars(Draw)

(* ---------------- a stream after a Hold ---------------- *)
\* ten Taps 30 ms apart, the first 5 ms after the end of a Hold; all objects
\* lie at the chart centre, where the pointer rests when a session starts
HoldStream == [n \in 1..10 |-> Tap(n, 256, 192, 100 + 30 * n, 0)]

StreamCharts ==
  { Beatmap(STANDARD, 5, 140,
            << Hold(0, 256, 192, 25, 125, << Pt(256, 192), Pt(256, 192) >>, 1) >>
              \o HoldStream) }

StreamInit == InitOn(StreamCharts)

\* the player uses the keyboard only
StreamNext ==
  \/ LoadOsz
  \/ startMap
  \/ AdvanceClock
  \/ Draw
  \/ KeyDown
  \/ KeyUp
  \/ Escape
  \/ Unmount

StreamSpec == StreamInit /\ [][StreamNext]_vars

(* ---------------- archives without audio ---------------- *)
\* loadOsz when the archive holds no file of the chart's AudioFilename: the
\* beatmap is kept, its audioBuffer is undefined
Silent(bm) == [bm EXCEPT !.audioBuffer = FALSE]

\* a Drum chart loaded without audio, and a Drum chart loaded with it
SilentCharts ==
  { Silent(Beatmap(TAIKO, 5, 140, << Tap(0, 0, 0, 25, 0), Tap(1, 0, 0, 125, 2) >>)),
    Beatmap(TAIKO, 5, 140, << Tap(0, 0, 0, 25, 0), Tap(1, 0, 0, 125, 2) >>) }

SilentInit == InitOn(SilentCharts)

\* the actions of a Drum session (the mouse listeners do nothing in it)
SilentNext ==
  \/ LoadOsz
  \/ startMap
  \/ AdvanceClock
  \/ Draw
  \/ KeyDown
  \/ KeyRepeat
  \/ KeyUp
  \/ Escape
  \/ Unmount

SilentSpec == SilentInit /\ [][SilentNext]_vars

(* ---------------- the score under a sequence of judgements ---------------- *)
\* the longest sequence of judgements that is followed
MaxLog == 4

\* the (points, hitType) pairs with which the engine calls updateScore
JudgeCalls ==
  { [points |-> 300, hitType |-> "300"], [points |-> 100, hitType |-> "100"],
    [points |-> 50, hitType |-> "50"], [points |-> 0, hitType |-> "miss"] }

ComboInit == InitOn({ Beatmap(STANDARD, 5, 140, << Tap(0, 100, 192, 25, 0) >>) })

\* one call of updateScore: scoreRef.current is read, replaced by the next
\* score, and the call is recorded
Judge ==
  /\ Len(judgements) < MaxLog
  /\ \E c \in JudgeCalls :
       /\ scoreRef' = updateScore(scoreRef, c.points, c.hitType)
       /\ judgements' = Append(judgements, c.hitType)
  /\ UNCHANGED << beatmap, objects, nextHittableIndex, audioClock, startTimeRef,
                  mouseState, visualMouse, spinnerState, taikoDrumState, maniaKeyState,
                  keysHeld, allBeatmaps, finalScore, phase, wallClock, catchState >>

ComboNext == Judge

ComboSpec == ComboInit /\ [][ComboNext]_vars

(* ======================= properties ======================= *)
\* a press edge: one more key or button is held after the step
PressEdge == \E k \in keysHeld' : k \notin keysHeld /\ keysHeld' = keysHeld \cup {k}
PressedKey == CHOOSE k \in keysHeld' : k \notin keysHeld

ChangedObjects == { i \in 1..Len(objects) : objects'[i] # objects[i] }
NewlyResolved == { i \in 1..Len(objects) : ~Resolved(objects[i]) /\ Resolved(objects'[i]) }
JudgedInStep == TotalJudged(scoreRef') - TotalJudged(scoreRef)
HitsInStep ==
  (scoreRef'.count300 + scoreRef'.count100 + scoreRef'.count50)
  - (scoreRef.count300 + scoreRef.count100 + scoreRef.count50)

\* the step emitted exactly one judgement, of the given tier
OneJudgement(tier) ==
  /\ scoreRef'.count300 = scoreRef.count300 + (IF tier = "300" THEN 1 ELSE 0)
  /\ scoreRef'.count100 = scoreRef.count100 + (IF tier = "100" THEN 1 ELSE 0)
  /\ scoreRef'.count50 = scoreRef.count50 + (IF tier = "50" THEN 1 ELSE 0)
  /\ scoreRef'.countMiss = scoreRef.countMiss + (IF tier = "miss" THEN 1 ELSE 0)

\* the step emitted exactly one graded hit, of the given tier (misses aside)
OneHitOfTier(tier) ==
  /\ scoreRef'.count300 = scoreRef.count300 + (IF tier = "300" THEN 1 ELSE 0)
  /\ scoreRef'.count100 = scoreRef.count100 + (IF tier = "100" THEN 1 ELSE 0)
  /\ scoreRef'.count50 = scoreRef.count50 + (IF tier = "50" THEN 1 ELSE 0)

TierOf(d) == IF d <= 50 THEN "300" ELSE IF d <= 100 THEN "100" ELSE "50"
TierPoints(tier) ==
  IF tier = "300" THEN 300 ELSE IF tier = "100" THEN 100 ELSE IF tier = "50" THEN 50 ELSE 0

\* C1: in every mode one press edge changes the flags of at most one chart
\* object and emits at most one judgement.
C1_OnePressOneResolution ==
  [][PressEdge => (Cardinality(ChangedObjects) <= 1 /\ JudgedInStep <= 1)]_vars

\* C2: every press that resolves an object as hit has d = |now - time| <= 150
\* and emits tier 300 if d <= 50, 100 if 50 < d <= 100, 50 if 100 < d <= 150.
C2_PressTierByDelta ==
  [][PressEdge =>
       \A i \in 1..Len(objects) :
         (~objects[i].hit /\ objects'[i].hit) =>
           LET d == Abs(CurrentTime - objects[i].time)
           IN d <= 150 /\ OneHitOfTier(TierOf(d))]_vars

\* C3: a frame tick that runs while an object at or after the cursor is
\* unresolved and more than 150 ms late marks it missed and emits exactly one
\* miss judgement for it, for every object kind and in every mode.
LateUnresolved ==
  { i \in 1..Len(objects) :
      /\ i - 1 >= nextHittableIndex
      /\ ~Resolved(objects[i])
      /\ CurrentTime - objects[i].time > 150 }

C3_TickMissesEveryLateObject ==
  [][Draw => /\ \A i \in LateUnresolved : objects'[i].missed
             /\ scoreRef'.countMiss - scoreRef.countMiss =
                  Cardinality({ i \in 1..Len(objects) : ~objects[i].missed /\ objects'[i].missed })
             /\ (LateUnresolved # {} /\ HitsInStep = 0 => scoreRef'.combo = 0)]_vars

\* C4: the advance cursor never decreases and stays within 0 .. number of
\* chart objects, over any interleaving of ticks and input events.
C4_CursorMonotoneInRange ==
  /\ [](nextHittableIndex \in 0..Len(objects))
  /\ [][nextHittableIndex' >= nextHittableIndex]_vars

C4_Witness == nextHittableIndex = 2 /\ Len(objects) = 2

\* C5: a judgement of tier t sets combo' = 0 for a miss, else combo + 1; adds
\* tierPoints(t) * max(combo', 1) to totalScore; increases exactly the counter
\* of t by one; and sets maxCombo' = max(maxCombo, combo').
C5_JudgementTransition ==
  [][JudgedInStep = 1 =>
       \E tier \in HitTypes :
         /\ OneJudgement(tier)
         /\ scoreRef'.combo = (IF tier = "miss" THEN 0 ELSE scoreRef.combo + 1)
         /\ scoreRef'.totalScore =
              scoreRef.totalScore + TierPoints(tier) * Max(scoreRef'.combo, 1)
         /\ scoreRef'.maxCombo = Max(scoreRef.maxCombo, scoreRef'.combo)]_vars

C5_Witness == scoreRef.combo = 2 /\ scoreRef.totalScore = 300 + 2 * 100

\* C6: totalScore, maxCombo and the four tier counters never decrease, and the
\* combo is 0 right after a miss (it counts only the hits judged after it).
C6_ScoreNeverRolledBack ==
  [][/\ scoreRef'.totalScore >= scoreRef.totalScore
     /\ scoreRef'.maxCombo >= scoreRef.maxCombo
     /\ scoreRef'.count300 >= scoreRef.count300
     /\ scoreRef'.count100 >= scoreRef.count100
     /\ scoreRef'.count50 >= scoreRef.count50
     /\ scoreRef'.countMiss >= scoreRef.countMiss
     /\ (scoreRef'.countMiss > scoreRef.countMiss => scoreRef'.combo <= HitsInStep)]_vars

C6_Witness ==
  scoreRef.countMiss = 1 /\ scoreRef.combo = 0 /\ scoreRef.maxCombo = 1 /\ scoreRef.totalScore > 0

\* C7: 0 <= accuracy <= 100 in every reachable state; accuracy is
\* (300 n300 + 100 n100 + 50 n50) / (300 (n300+n100+n50+nMiss)) * 100 once a
\* judgement exists, and exactly 100 before.
C7_AccuracyFormula ==
  LET a == scoreRef.accuracy
      n == TotalJudged(scoreRef)
      w == 300 * scoreRef.count300 + 100 * scoreRef.count100 + 50 * scoreRef.count50
  IN /\ a.den > 0
     /\ 0 <= a.num
     /\ a.num <= 100 * a.den
     /\ IF n = 0 THEN a.num = 100 * a.den
        ELSE a.num * (300 * n) = (w * 100) * a.den

C7_Witness ==
  scoreRef.count100 = 1 /\ scoreRef.countMiss = 1 /\ scoreRef.accuracy.num * 6 = 100 * scoreRef.accuracy.den

\* C8: once an object is resolved, later handler calls and ticks leave its
\* flags alone and emit no judgement for it: every judgement of a step belongs
\* to an object resolved in that step (or to the unresolved Spin a Taiko press
\* lands on).
TaikoSpinPress ==
  /\ beatmap.mode = TAIKO
  /\ PressEdge
  /\ \E i \in 1..Len(objects) :
       /\ objects[i].type = SPINNER
       /\ ~Resolved(objects[i])
       /\ CurrentTime >= objects[i].time
       /\ CurrentTime <= objects[i].endTime

C8_ResolvedObjectsAreInert ==
  [][/\ \A i \in 1..Len(objects) : Resolved(objects[i]) => objects'[i] = objects[i]
     /\ JudgedInStep <= Cardinality(NewlyResolved) + (IF TaikoSpinPress THEN 1 ELSE 0)]_vars

\* the cursor has passed a Hold that was hit and the Tap after it: ticks scanned
\* the Hold after its resolution, and it was judged once
C8_Witness ==
  /\ beatmap.mode = STANDARD
  /\ Len(objects) = 2
  /\ objects[1].type = SLIDER
  /\ objects[1].hit
  /\ nextHittableIndex = 2
  /\ TotalJudged(scoreRef) = 2

\* C9: Standard mode, a chart of one Tap at T, the pointer on the object and
\* the initial score: a press with |now - T| <= 150 resolves the object with
\* combo 1 and totalScore 300 / 100 / 50 by window; a press with
\* |now - T| > 150 changes neither the object nor the score.
C9_SingleTapScenario ==
  [][(/\ beatmap.mode = STANDARD
      /\ Len(objects) = 1
      /\ objects[1].type = CIRCLE
      /\ ~Resolved(objects[1])
      /\ scoreRef = InitialScore
      /\ visualMouse = Pt(ScreenX(objects[1].x), ScreenY(objects[1].y))
      /\ PressEdge
      /\ PressedKey \in {"z", "x", "mouse"})
     => LET d == Abs(CurrentTime - objects[1].time)
        IN IF d <= 150
             THEN /\ objects'[1].hit
                  /\ ~objects'[1].missed
                  /\ scoreRef'.combo = 1
                  /\ scoreRef'.totalScore = (IF d <= 50 THEN 300 ELSE IF d <= 100 THEN 100 ELSE 50)
             ELSE objects' = objects /\ scoreRef' = scoreRef]_vars

\* the Tap at 55 was pressed 120 ms late and scored 50
C9_Witness ==
  /\ beatmap.mode = STANDARD
  /\ Len(objects) = 1
  /\ objects[1].time = 55
  /\ objects[1].hit
  /\ CurrentTime = 175
  /\ scoreRef.combo = 1
  /\ scoreRef.totalScore = 50

\* C10: in Lane mode a key press for lane L changes only the earliest
\* unresolved object with floor(x * 4 / 512) = L and |now - time| <= 150;
\* every other object keeps its flags, and without such an object the press
\* changes nothing.
LaneOf(x) == (x * 4) \div 512
LaneCandidates(L) ==
  { i \in 1..Len(objects) :
      /\ ~Resolved(objects[i])
      /\ LaneOf(objects[i].x) = L
      /\ Abs(CurrentTime - objects[i].time) <= 150 }

C11_FinishOnlyPastLastObject ==
  [][(phase # "Finished" /\ phase' = "Finished") =>
       /\ nextHittableIndex' = Len(objects')
       /\ CurrentTime > beatmap.duration]_vars

\* C12: the final ScoreData is emitted exactly once per completed session: it
\* is handed to onFinish by the tick that leaves Running, no tick runs after
\* that one, Finished only leads to the unmount, and there is no second call.
Completed == phase = "Finished" \/ (phase = "Unmounted" /\ finalScore # << >>)

C12_FinalScoreEmittedOnce ==
  /\ [](Len(finalScore) <= 1)
  /\ [](Completed <=> Len(finalScore) = 1)
  /\ [][finalScore' # finalScore =>
          (phase = "Running" /\ phase' = "Finished" /\ finalScore' = << scoreRef' >>)]_vars
  /\ [][Completed => (~Draw /\ Completed')]_vars

\* the session was completed with judgements and then unmounted
C12_Witness ==
  /\ phase = "Unmounted"
  /\ Len(finalScore) = 1
  /\ TotalJudged(finalScore[1]) >= 2

\* C13: after the user quits a running session no frame tick runs, onFinish
\* is never emitted, and once the cleanup has run neither the chart flags nor
\* the score change.
WasQuit == phase = "Back" \/ (phase = "Unmounted" /\ finalScore = << >>)

C13_NoTickAfterQuit ==
  [][WasQuit =>
       /\ ~Draw
       /\ WasQuit'
       /\ finalScore' = << >>
       /\ (phase = "Unmounted" =>
             (objects' = objects /\ scoreRef' = scoreRef
              /\ nextHittableIndex' = nextHittableIndex))]_vars

\* the session was quit half-way: one object judged, another still unresolved
C13_Witness ==
  /\ phase = "Unmounted"
  /\ finalScore = << >>
  /\ TotalJudged(scoreRef) = 1
  /\ \E i \in 1..Len(objects) : ~Resolved(objects[i])

\* C14: in Drum mode, when the nearest unresolved Tap/Hold within 150 ms of
\* now has a class that does not match the press (inner - red, outer - blue),
\* the press changes no object's flags and emits no judgement.
DrumCandidates ==
  { i \in 1..Len(objects) :
      /\ i - 1 >= nextHittableIndex
      /\ ~Resolved(objects[i])
      /\ objects[i].type \in {CIRCLE, SLIDER}
      /\ Abs(CurrentTime - objects[i].time) <= 150 }

\* the candidate nearest in time (the earlier one on a tie)
DrumNearest ==
  CHOOSE i \in DrumCandidates :
    \A j \in DrumCandidates :
      \/ Abs(CurrentTime - objects[i].time) < Abs(CurrentTime - objects[j].time)
      \/ /\ Abs(CurrentTime - objects[i].time) = Abs(CurrentTime - objects[j].time)
         /\ i <= j

\* the class of the pressed drum key: "outer", "inner", or "none" when unbound
PressedClass ==
  LET idx == IndexOf(settings.keys.taiko, PressedKey)
  IN IF idx = -1 THEN "none" ELSE IF idx \in {0, 3} THEN "outer" ELSE "inner"

C14_DrumMismatchResolvesNothing ==
  [][(/\ beatmap.mode = TAIKO
      /\ PressEdge
      /\ PressedClass # "none"
      /\ DrumCandidates # {}
      /\ PressedClass # (IF IsBlue(objects[DrumNearest]) THEN "outer" ELSE "inner"))
     => (objects' = objects /\ scoreRef' = scoreRef)]_vars

\* C15: in Drum mode a press that reaches an unresolved Spin while now is
\* within [time, endTime] marks that Spin resolved and emits one judgement.
DrumSpinReached ==
  { i \in 1..Len(objects) :
      /\ i - 1 >= nextHittableIndex
      /\ objects[i].type = SPINNER
      /\ ~Resolved(objects[i])
      /\ CurrentTime >= objects[i].time
      /\ CurrentTime <= objects[i].endTime
      /\ \A j \in 1..(i - 1) : j - 1 >= nextHittableIndex => Resolved(objects[j]) }

C15_DrumSpinPressResolves ==
  [][(beatmap.mode = TAIKO /\ PressEdge /\ PressedClass # "none") =>
       \A i \in DrumSpinReached : Resolved(objects'[i]) /\ JudgedInStep = 1]_vars

\* C16: no object is marked missed while now - time <= 150 (the scroll
\* thresholds of the Drum and Lane ticks agree with the 150 ms rule).
C16_NoMissInsideWindow ==
  [][\A i \in 1..Len(objects) :
       (Len(objects') = Len(objects) /\ ~objects[i].missed /\ objects'[i].missed)
         => CurrentTime - objects[i].time > 150]_vars

\* C17: a press changes no object at index >= cursor + 10.
C17_PressLooksTenAhead ==
  [][PressEdge =>
       \A i \in 1..Len(objects) :
         i - 1 >= nextHittableIndex + SEARCH_AHEAD => objects'[i] = objects[i]]_vars

\* C18: auto-repeat key-down events resolve nothing: outside a frame tick,
\* chart flags and score change only on a step in which the set of held keys
\* changes (a press edge), so a key that stays held resolves nothing more.
C18_RepeatResolvesNothing ==
  /\ [][KeyRepeat => (objects' = objects /\ scoreRef' = scoreRef)]_vars
  /\ [][(Mounted /\ keysHeld' = keysHeld /\ ~Draw) =>
          (objects' = objects /\ scoreRef' = scoreRef)]_vars

\* "z" is still held from the hit of the first Tap while the second Tap is
\* under the pointer and inside its window
C18_Witness ==
  /\ beatmap.mode = STANDARD
  /\ Len(objects) = 2
  /\ keysHeld = {"z"}
  /\ objects[1].hit
  /\ objects[2].type = CIRCLE
  /\ ~Resolved(objects[2])
  /\ CurrentTime = objects[2].time
  /\ visualMouse = Pt(ScreenX(objects[2].x), ScreenY(objects[2].y))

\* C19: no frame tick raises an error (a Hold with a missing or single-point
\* path is drawn as a Hold fixed at its head point).
C19_DegenerateHoldNeverThrows == phase # "Crashed"

\* C20: no play session starts with an empty chart: the loader keeps no chart
\* without objects in the song list, and a mounted session has objects.
C20_EmptyChartNeverPlayed ==
  /\ \A n \in 1..Len(allBeatmaps) : Len(allBeatmaps[n].objects) > 0
  /\ (phase \notin {"Menu", "SongSelect"} =>
        (Len(beatmap.objects) > 0 /\ Len(objects) > 0))

\* the archive with the empty chart was loaded and nothing can be started
C20_Witness ==
  /\ phase = "SongSelect"
  /\ Len(beatmap.objects) = 0
  /\ allBeatmaps = << >>

(* ---------------- C21 ---------------- *)
\* the Spins before index i (1-based) that are already cleared
ClearedSpinsBefore(i) ==
  Cardinality({ j \in 1..(i - 1) : objects[j].type = SPINNER /\ objects[j].wasSpun })

\* C21: in Standard mode a Spin is resolved only on a frame inside its range
\* with the pointer held, with tier 300, and only when the rotation gathered
\* while that same Spin was active exceeds 8 PI.  The Spins of a chart are
\* disjoint in time, so the total gathered by the frame that resolves a Spin
\* must exceed 8 PI once for it and once for every Spin cleared before it.
C21_SpinNeedsOwnRotation ==
  [][beatmap.mode = STANDARD =>
       \A i \in NewlyResolved :
         objects[i].type = SPINNER =>
           /\ CurrentTime >= objects[i].time
           /\ CurrentTime <= objects[i].endTime
           /\ mouseState.isDown
           /\ scoreRef'.count300 > scoreRef.count300
           /\ spinnerState'.totalRotation > SPIN_CLEAR * (1 + ClearedSpinsBefore(i))]_vars

(* ---------------- C22 ---------------- *)
\* the pointer position m is within the follow radius (2.5 circle radii) of
\* the ball of a straight one-slide Hold at clock reading now: the ball moves
\* linearly from the first control point to the last over [time, endTime]
\* (coordinates multiplied by the Hold's length in ms to stay integral)
NearBall(bm, obj, now, m) ==
  LET D == obj.endTime - obj.time
      p0 == obj.sliderPoints[1]
      p1 == obj.sliderPoints[Len(obj.sliderPoints)]
      bxD == ScreenX(p0.x) * D + (ScreenX(p1.x) - ScreenX(p0.x)) * (now - obj.time)
      byD == ScreenY(p0.y) * D + (ScreenY(p1.y) - ScreenY(p0.y)) * (now - obj.time)
      fr == ((5440 - 448 * bm.circleSize) * 25) \div 1000
  IN (m.x * D - bxD) * (m.x * D - bxD) + (m.y * D - byD) * (m.y * D - byD)
       <= (fr * D) * (fr * D)

\* C22: in Standard mode a frame resolves a Hold only when now is inside
\* [time, endTime], the pointer is held and within the follow radius of the
\* ball, and the judgement is a 300; every step of a session emits exactly
\* one judgement per object it resolves and a resolved Hold keeps its flags,
\* so a Hold receives at most one judgement, from the head press or from
\* following.
C22_HoldFollowedOnce ==
  [][beatmap.mode = STANDARD /\ Len(objects') = Len(objects) =>
       /\ JudgedInStep = Cardinality(NewlyResolved)
       /\ \A i \in 1..Len(objects) :
            objects[i].type = SLIDER =>
              /\ Resolved(objects[i]) => objects'[i] = objects[i]
              /\ (i \in NewlyResolved /\ ~PressEdge) =>
                    /\ CurrentTime >= objects[i].time
                    /\ CurrentTime <= objects[i].endTime
                    /\ mouseState.isDown
                    /\ NearBall(beatmap, objects[i], CurrentTime, visualMouse')
                    /\ objects'[i].hit /\ ~objects'[i].missed
                    /\ scoreRef'.count300 > scoreRef.count300]_vars

\* a Hold resolved by following: the pointer never left the screen centre,
\* which is outside the head circle, so no press can have resolved it
C22_Witness ==
  /\ beatmap.mode = STANDARD
  /\ Len(objects) = 2
  /\ objects[1].type = SLIDER
  /\ objects[1].hit
  /\ mouseState.x = innerWidth \div 2
  /\ scoreRef.count300 >= 1

(* ---------------- C26 ---------------- *)
AllUnresolved(objs) == \A i \in 1..Len(objs) : ~Resolved(objs[i])

\* C26: a session writes to its own copy of the chart only: the object list
\* of the loaded beatmap, and of every beatmap of the song list, stays as
\* loaded, and a session that starts on a beatmap starts with a copy of its
\* list in which every object is unresolved, the cursor at 0 and the initial
\* score.
C26_SessionOwnsItsCopy ==
  [][/\ AllUnresolved(beatmap'.objects)
     /\ \A n \in 1..Len(allBeatmaps') : AllUnresolved(allBeatmaps'[n].objects)
     /\ (phase # "Menu" => allBeatmaps' = allBeatmaps)
     /\ (phase \in {"Running", "Finished", "Back", "Crashed", "Unmounted"} => beatmap' = beatmap)
     /\ (phase = "SongSelect" /\ phase' = "Running" =>
           /\ objects' = beatmap'.objects
           /\ AllUnresolved(objects')
           /\ nextHittableIndex' = 0
           /\ scoreRef' = InitialScore)]_vars

\* a second session has started on the beatmap of a finished session that
\* resolved an object
C26_Witness ==
  /\ phase = "Running"
  /\ Len(finalScore) = 1
  /\ TotalJudged(finalScore[1]) >= 1
  /\ Len(objects) >= 1
  /\ AllUnresolved(objects)
  /\ objects = beatmap.objects
  /\ nextHittableIndex = 0
  /\ scoreRef = InitialScore

(* ---------------- C27 ---------------- *)
\* C27: within one frame tick miss detection is evaluated before the
\* cursor-advance check: when a tick marks the object at the cursor index
\* missed, the advance check of the same tick sees it resolved and the cursor
\* has moved on when the tick ends.
C27_MissBeforeAdvanceCheck ==
  [][Draw =>
       \A i \in NewlyResolved :
         (objects'[i].missed /\ i = nextHittableIndex + 1)
           => nextHittableIndex' > nextHittableIndex]_vars

(* ---------------- C28 ---------------- *)
\* C28: in every reachable state every object at an index below the cursor
\* is resolved (hit or missed)
C28_BelowCursorResolved ==
  /\ nextHittableIndex <= Len(objects)
  /\ \A i \in 1..Min(nextHittableIndex, Len(objects)) : Resolved(objects[i])

(* ---------------- C29 ---------------- *)
\* the objects of the lookahead window (1-based indices) that are unresolved
\* Taps or Holds within 150 ms of now and within 1.5 circle radii of p
StandardCandidates(p) ==
  { i \in (nextHittableIndex + 1)..Min(nextHittableIndex + 10, Len(objects)) :
      /\ ~Resolved(objects[i])
      /\ objects[i].type \in {CIRCLE, SLIDER}
      /\ Abs(CurrentTime - objects[i].time) <= 150
      /\ LET dx == p.x - ScreenX(objects[i].x)
             dy == p.y - ScreenY(objects[i].y)
             r == ((5440 - 448 * beatmap.circleSize) * 15) \div 1000
         IN dx * dx + dy * dy <= r * r }

\* C29: in Standard mode a press of a bound key or of the mouse button
\* resolves the lowest-index candidate, with the tier of its time delta, and
\* no other object; it resolves nothing when there is no candidate.
C29_PressResolvesLowestCandidate ==
  [][(beatmap.mode = STANDARD /\ Mounted /\ PressEdge) =>
       LET cands == StandardCandidates(visualMouse)
       IN IF cands = {}
            THEN NewlyResolved = {} /\ JudgedInStep = 0
            ELSE LET lo == CHOOSE i \in cands : \A j \in cands : i <= j
                 IN /\ NewlyResolved = {lo}
                    /\ objects'[lo].hit
                    /\ OneHitOfTier(TierOf(Abs(CurrentTime - objects[lo].time)))]_vars

\* two Taps at one position passed both tests at now = 125 (the first by
\* 100 ms, the second by 0 ms) and the press resolved the first, as a 100
C29_Witness ==
  /\ beatmap.mode = STANDARD
  /\ Len(objects) = 2
  /\ objects[1].time = 25 /\ objects[2].time = 125
  /\ objects[1].x = objects[2].x
  /\ objects[1].type = CIRCLE /\ objects[2].type = CIRCLE
  /\ objects[1].hit
  /\ ~Resolved(objects[2])
  /\ scoreRef.count100 = 1
  /\ TotalJudged(scoreRef) = 1
  /\ CurrentTime = 125

(* ---------------- C30 ---------------- *)
\* C30: every chart object contributes at most one judgement to a session:
\* the judgement counters never add up to more than the number of objects
C30_JudgementsBoundedByObjects == TotalJudged(scoreRef) <= Len(objects)

(* ---------------- C25 ---------------- *)
\* the readings Date.now() can return, and the values the fields derived from
\* it can hold
WallReadings == { WallEpoch + k * WallStep : k \in 0..MaxWallTicks }
WallStamps == WallReadings \cup {0}

\* C25: the outcome of a step for the judgement state (object flags, score,
\* cursor, rotation) is the same for every reading of the wall clock and for
\* every value of the fields derived from it (lastTime, rpm, lastHitTime), so
\* two runs that differ in their wall-clock readings only end with the same
\* flags and score; the frame tick and the press handlers take now as
\* (audio position - session start) - 25 ms; and the wall clock moving on
\* changes nothing of the judgement state.
C25_JudgementIgnoresWallClock ==
  [][/\ CurrentTime = (audioClock - startTimeRef) - 25
     /\ Draw =>
          \A w \in WallReadings, lt \in WallStamps, rp \in {0, 3} :
            LET m == Pt(lerp(visualMouse.x, mouseState.x), lerp(visualMouse.y, mouseState.y))
                st == draw(beatmap, objects, nextHittableIndex, scoreRef,
                           [spinnerState EXCEPT !.lastTime = lt, !.rpm = rp],
                           (audioClock - startTimeRef) - 25, m, mouseState.isDown, w)
            IN /\ objects' = st.objects
               /\ scoreRef' = st.score
               /\ nextHittableIndex' = st.cursor
               /\ spinnerState'.totalRotation = st.spinner.totalRotation
               /\ spinnerState'.lastAngle = st.spinner.lastAngle
     /\ (beatmap.mode = TAIKO /\ Mounted /\ PressEdge
          /\ IndexOf(settings.keys.taiko, PressedKey) # -1) =>
          \A w \in WallReadings, lh \in WallStamps :
            LET keyType == IF IndexOf(settings.keys.taiko, PressedKey) \in {0, 3}
                           THEN "outer" ELSE "inner"
                r == handleTaikoInput(objects, nextHittableIndex, scoreRef,
                                      (audioClock - startTimeRef) - 25, keyType, lh, w)
            IN objects' = r.objects /\ scoreRef' = r.score
     /\ wallClock' # wallClock =>
          /\ objects' = objects /\ scoreRef' = scoreRef
          /\ nextHittableIndex' = nextHittableIndex /\ phase' = phase]_vars

\* a Spin was cleared on frames whose wall-clock readings differ: the last
\* reading is later than the first and the rpm derived from it is positive
C25_Witness ==
  /\ beatmap.mode = STANDARD
  /\ Len(objects) = 1
  /\ objects[1].wasSpun
  /\ scoreRef.count300 = 1
  /\ spinnerState.lastTime > WallEpoch
  /\ spinnerState.rpm > 0

(* ---------------- C23 ---------------- *)
\* the droplets a step adds to the caught sets
RECURSIVE CaughtInStep(_)
CaughtInStep(i) ==
  IF i = 0 THEN 0
  ELSE Cardinality(catchState'.caughtDroplets[i] \ catchState.caughtDroplets[i])
         + CaughtInStep(i - 1)

\* C23: in Catch mode every sub-droplet of a Hold is judged at most once:
\* the caught sets only grow, their indices are droplets of the Hold, and a
\* frame emits one droplet judgement for each index it adds to a set and none
\* for an index that is in a set already.
C23_DropletJudgedOnce ==
  [][(beatmap.mode = CATCH /\ Len(catchState.caughtDroplets) = Len(objects)
      /\ Len(catchState'.caughtDroplets) = Len(objects)) =>
       /\ \A i \in 1..Len(objects) :
            /\ catchState.caughtDroplets[i] \subseteq catchState'.caughtDroplets[i]
            /\ catchState'.caughtDroplets[i] \subseteq
                 (IF objects[i].type = SLIDER
                    THEN 1..((objects[i].endTime - objects[i].time) \div 50)
                    ELSE {})
       /\ scoreRef'.count100 - scoreRef.count100 = CaughtInStep(Len(objects))]_vars

\* droplets 2 and 3 of a juice stream are caught and judged once each, at
\* the arrival of droplet 3, where droplet 2 is still inside its grace window
C23_Witness ==
  /\ beatmap.mode = CATCH
  /\ Len(catchState.caughtDroplets) = 1
  /\ {2, 3} \subseteq catchState.caughtDroplets[1]
  /\ scoreRef.count100 = Cardinality(catchState.caughtDroplets[1])
  /\ CurrentTime = 175

(* ---------------- C24 ---------------- *)
\* the pickups of the pool that have fallen past the bottom at this frame
LostPickups == { p \in catchState.pool : CurrentTime > p.arrival + 50 }

\* C24: in Catch mode a frame removes from the pool every pickup that has
\* fallen past the bottom uncaught, and it judges no miss for it: countMiss
\* grows by the fruit the frame marks missed only, and the combo is not
\* reset unless a fruit is missed.
C24_LostPickupIsNoMiss ==
  [][(CatchDraw /\ LostPickups # {}) =>
       LET missedFruit == { i \in NewlyResolved : objects'[i].missed }
       IN /\ LostPickups \cap catchState'.pool = {}
          /\ scoreRef'.countMiss = scoreRef.countMiss + Cardinality(missedFruit)
          /\ (missedFruit = {} => scoreRef'.combo >= scoreRef.combo)]_vars

\* the fruit was caught (combo 1), the banana rain has spawned pickups, and
\* none of them was caught: the pool is empty again with one judgement made
C24_Witness ==
  /\ beatmap.mode = CATCH
  /\ Len(objects) = 2
  /\ objects[1].hit
  /\ catchState.lastSpawn >= objects[2].time
  /\ catchState.pool = {}
  /\ CurrentTime > objects[2].endTime + 150
  /\ scoreRef.combo = 1
  /\ TotalJudged(scoreRef) = 1

(* ---------------- C31 ---------------- *)
\* C31: in every reachable state no object has both hit and missed set, and
\* no step of a session sets missed on an object that is hit or hit on an
\* object that is missed, whether the step is a tick or a press.
C31_HitAndMissedExclusive ==
  /\ [](\A i \in 1..Len(objects) : ~(objects[i].hit /\ objects[i].missed))
  /\ [][Len(objects') = Len(objects) =>
          \A i \in 1..Len(objects) :
            /\ objects[i].hit => (objects'[i].hit /\ ~objects'[i].missed)
            /\ objects[i].missed => (objects'[i].missed /\ ~objects'[i].hit)]_vars

\* Drum mode: the first Tap was marked missed by a tick while it was still
\* 150 ms late, and a press at that reading then hit the second Tap (the
\* combo is 1 after the miss), leaving the first as it was
C31_Witness ==
  /\ beatmap.mode = TAIKO
  /\ Len(objects) = 2
  /\ objects[1].missed /\ ~objects[1].hit
  /\ CurrentTime - objects[1].time = 150
  /\ objects[2].hit /\ ~objects[2].missed
  /\ scoreRef.countMiss = 1
  /\ scoreRef.combo = 1

(* ---------------- C32 ---------------- *)
\* C32: within a session the resolution flags are absorbing: a step never
\* clears the hit flag, the missed flag or the wasSpun flag of an object.
C32_FlagsAbsorbing ==
  [][(phase \in {"Running", "Finished", "Back", "Crashed", "Unmounted"}) =>
       /\ Len(objects') = Len(objects)
       /\ \A i \in 1..Len(objects) :
            /\ (objects[i].hit => objects'[i].hit)
            /\ (objects[i].missed => objects'[i].missed)
            /\ (objects[i].wasSpun => objects'[i].wasSpun)]_vars

\* the Spin was cleared, the Tap after it was marked missed, and the session
\* ran on to its end with all three flags still set
C32_Witness ==
  /\ beatmap.mode = STANDARD
  /\ Len(objects) = 2
  /\ objects[1].type = SPINNER
  /\ objects[1].wasSpun /\ objects[1].hit
  /\ objects[2].missed
  /\ phase = "Finished"

(* ---------------- C33 ---------------- *)
\* C33: while the audio clock keeps advancing, every running session
\* eventually reaches Finished, unless the player quits it
C33_SessionEventuallyFinishes ==
  (phase = "Running") ~> (phase = "Finished" \/ phase = "Back")

(* ---------------- C34 ---------------- *)
\* C34: in Standard mode every unresolved Tap within 150 ms of now is inside
\* the lookahead window of a press: its index is below cursor + 10
C34_LookaheadCoversHittable ==
  beatmap.mode = STANDARD =>
    \A i \in 1..Len(objects) :
      (/\ objects[i].type = CIRCLE
       /\ ~Resolved(objects[i])
       /\ Abs(CurrentTime - objects[i].time) <= HIT_WINDOW_50)
        => i - 1 < nextHittableIndex + SEARCH_AHEAD

(* ---------------- C35 ---------------- *)
\* C35: the score and the chart flags change only while the session is
\* Running: no step changes them in a session whose tick loop never started
\* (the beatmap has no audio buffer) or after Finished has been emitted
C35_ChangesOnlyWhileRunning ==
  [][(phase \in {"Idle", "Finished"}) => (objects' = objects /\ scoreRef' = scoreRef)]_vars

(* ---------------- C36 ---------------- *)
\* C36: in a mounted Standard session the pointer-held flag is true exactly
\* when a bound key or the mouse button is down
C36_HeldFlagTracksInputs ==
  (beatmap.mode = STANDARD /\ Mounted) =>
    (mouseState.isDown <=>
       \E k \in keysHeld : k = "mouse" \/ IndexOf(settings.keys.standard, k) # -1)

(* ---------------- C37 ---------------- *)
\* the number of judgements after the last miss of a sequence
RECURSIVE RunSinceMiss(_)
RunSinceMiss(log) ==
  IF log = << >> THEN 0
  ELSE IF log[Len(log)] = "miss" THEN 0
  ELSE 1 + RunSinceMiss(SubSeq(log, 1, Len(log) - 1))

\* the largest number of judgements after the last miss over all prefixes
RECURSIVE LongestRun(_)
LongestRun(log) ==
  IF log = << >> THEN 0
  ELSE LET before == LongestRun(SubSeq(log, 1, Len(log) - 1))
           here == RunSinceMiss(log)
       IN IF here > before THEN here ELSE before

\* C37: in every reachable state combo is the number of judgements since the
\* last miss, maxCombo is the largest value combo has had so far, and so
\* maxCombo >= combo.
C37_ComboCountsSinceMiss ==
  /\ Len(judgements) = TotalJudged(scoreRef)
  /\ scoreRef.combo = RunSinceMiss(judgements)
  /\ scoreRef.maxCombo = LongestRun(judgements)
  /\ scoreRef.maxCombo >= scoreRef.combo

\* two hits, a miss and one more hit: the combo is 1, its largest value was 2
C37_Witness ==
  /\ judgements = << "300", "100", "miss", "50" >>
  /\ scoreRef.combo = 1
  /\ scoreRef.maxCombo = 2

(* ---------------- C38 ---------------- *)
\* a release edge: one key or button fewer is held after the step
ReleaseEdge == \E k \in keysHeld : keysHeld' = keysHeld \ {k}

\* C38: a key-up or mouse-up event changes no chart object, no score field
\* and not the cursor, in any mode; in Lane mode the hit flag of a Hold is set
\* by a press edge only, within 150 ms of the Hold's head time, and a Hold is
\* judged once.
C38_ReleaseJudgesNothing ==
  /\ [][ReleaseEdge =>
          (objects' = objects /\ scoreRef' = scoreRef
           /\ nextHittableIndex' = nextHittableIndex)]_vars
  /\ [][(beatmap.mode = MANIA /\ Len(objects') = Len(objects)) =>
          \A i \in 1..Len(objects) :
            objects[i].type = SLIDER =>
              /\ (~objects[i].hit /\ objects'[i].hit) =>
                    (PressEdge /\ Abs(CurrentTime - objects[i].time) <= 150)
              /\ (Resolved(objects[i]) => objects'[i] = objects[i])]_vars

\* Lane mode: the Hold was hit on its head and the key was released before
\* the Hold's end; the head press is the only judgement
C38_Witness ==
  /\ beatmap.mode = MANIA
  /\ Len(objects) = 2
  /\ objects[2].type = SLIDER
  /\ objects[2].hit
  /\ keysHeld = {}
  /\ CurrentTime > objects[2].time
  /\ CurrentTime < objects[2].endTime
  /\ TotalJudged(scoreRef) = 1

(* ---------------- C39 ---------------- *)
\* C39: in Lane mode every chart object has a lane in 0..3, and in a session
\* that is not quit every object is eventually resolved: the cursor
\* eventually reaches the end of the chart
C39_LaneObjectsEventuallyResolved ==
  /\ [](beatmap.mode = MANIA =>
          \A i \in 1..Len(objects) : LaneOf(objects[i].x) \in 0..3)
  /\ ((beatmap.mode = MANIA /\ phase = "Running") ~>
        (phase = "Back"
         \/ (nextHittableIndex = Len(objects)
             /\ \A i \in 1..Len(objects) : Resolved(objects[i]))))

====
